---- MODULE Spec2Model ----
(***************************************************************************)
(* Model of the TXI leadership-console backend (ai-bot-backend).           *)
(*                                                                         *)
(* One request to the /api/txi-dashboard handler is modelled as a state    *)
(* machine: the handler validates the request, starts the three source     *)
(* adapters (ServiceNow, Salesforce, SharePoint) concurrently, joins them  *)
(* with Promise.all, builds the deterministic executive brief, optionally  *)
(* asks Gemini to polish it and writes one HTTP response.  Every network   *)
(* reply is an action whose outcome is chosen by the environment.          *)
(*                                                                         *)
(* Two versions of the handler are modelled and selected by `version`:     *)
(*   "final"    - src/api/txi-dashboard.js  (Canonical Exec Template)      *)
(*   "hardened" - src/unnamed/part_007      (adds the template guard)      *)
(*                                                                         *)
(* JavaScript values are tagged records: [t |-> "null"], [t |-> "str",     *)
(* s |-> ...], [t |-> "num", n |-> ...], ...  Strings are TLA+ strings, so *)
(* template literals, includes(), trim() and toLowerCase() are computed.   *)
(* Characters of the source outside ASCII are written with one ASCII       *)
(* character each, so that lengths are those of the source: the            *)
(* typographic apostrophe (U+2019) is the circumflex ^, which the source   *)
(* has in no string, so that it differs from the ASCII apostrophe as it    *)
(* does in the source; the dash, the arrow and the ellipsis, which no      *)
(* comparison of the source reads, are -, > and a full stop.               *)
(***************************************************************************)
EXTENDS Integers, Sequences, FiniteSets, TLC

VARIABLES
    version,   \* which handler file serves the request
    env,       \* process.env: the set of configured variable names
    req,       \* the incoming request: [method, body]
    hpc,       \* handler position: "recv" | "fanout" | "gemini" | "backoff" | "done"
    sn,        \* getServiceNowSummary(): its promise [pc, result, thrown, aux]
    sf,        \* getSalesforceSummary(): its promise, aux = acct
    sp,        \* getSharePointSummary(): its promise, aux = rSeed.json
    gem,       \* callGeminiPolish(): [attempt, brief, out]
    res,       \* the HTTP response written: [status, body] (status 0: none yet)
    net,       \* number of network calls issued, by endpoint
    sig,       \* sharepoint-signals handler: [pc, i, filesFound, combinedText, meta]
    chat,      \* chat-sp handler: [pc, driveId, results, supported, i, extracted, llmCalls]
    now,       \* the clock: seconds since the deployment's first request arrived
    built      \* the calls of buildCanonicalExecutiveAnswer so far, in their order:
               \* [question, env, sources, out, at]

vars == <<version, env, req, hpc, sn, sf, sp, gem, res, net, sig, chat, now, built>>

(***************************************************************************)
(* JavaScript values                                                       *)
(***************************************************************************)
Undefined == [t |-> "undefined"]
Null      == [t |-> "null"]
Str(s)    == [t |-> "str", s |-> s]
Num(n)    == [t |-> "num", n |-> n]
Arr(xs)   == [t |-> "arr", items |-> xs]
Bool(b)   == [t |-> "bool", b |-> b]

IsNullish(v) == v.t \in {"undefined", "null"}

\* JavaScript truthiness of a tagged value.
Truthy(v) ==
    CASE v.t = "undefined" -> FALSE
      [] v.t = "null"      -> FALSE
      [] v.t = "str"       -> v.s # ""
      [] v.t = "num"       -> v.n # 0
      [] v.t = "bool"      -> v.b
      [] OTHER             -> TRUE

(***************************************************************************)
(* Strings                                                                 *)
(***************************************************************************)
\* String.prototype.includes
Includes(t, m) ==
    \E i \in 1..(Len(t) - Len(m) + 1) : SubSeq(t, i, i + Len(m) - 1) = m

\* The lower-case form of each upper-case ASCII letter
LowerOf ==
    [A |-> "a", B |-> "b", C |-> "c", D |-> "d", E |-> "e", F |-> "f", G |-> "g",
     H |-> "h", I |-> "i", J |-> "j", K |-> "k", L |-> "l", M |-> "m", N |-> "n",
     O |-> "o", P |-> "p", Q |-> "q", R |-> "r", S |-> "s", T |-> "t", U |-> "u",
     V |-> "v", W |-> "w", X |-> "x", Y |-> "y", Z |-> "z"]

LowerChar(c) == IF c \in DOMAIN LowerOf THEN LowerOf[c] ELSE c

RECURSIVE ToLowerCase(_)
\* String.prototype.toLowerCase (ASCII letters), character by character
ToLowerCase(s) ==
    IF Len(s) <= 1 THEN LowerChar(s)
    ELSE LET h == Len(s) \div 2 IN
         ToLowerCase(SubSeq(s, 1, h)) \o ToLowerCase(SubSeq(s, h + 1, Len(s)))

\* The ASCII white space that trim() removes (the vertical tab and the
\* non-ASCII spaces cannot be written in a string of the model)
IsSpace(c) == c \in {" ", "\n", "\t", "\r", "\f"}

RECURSIVE TrimStart(_)
TrimStart(s) ==
    IF s # "" /\ IsSpace(SubSeq(s, 1, 1)) THEN TrimStart(SubSeq(s, 2, Len(s))) ELSE s

RECURSIVE TrimEnd(_)
TrimEnd(s) ==
    IF s # "" /\ IsSpace(SubSeq(s, Len(s), Len(s)))
    THEN TrimEnd(SubSeq(s, 1, Len(s) - 1)) ELSE s

\* String.prototype.trim
Trim(s) == TrimEnd(TrimStart(s))

\* The text before the first line break: s.split("\n")[0]
FirstLine(s) ==
    IF ~Includes(s, "\n") THEN s
    ELSE LET i == CHOOSE j \in 1..Len(s) :
                     /\ SubSeq(s, j, j) = "\n"
                     /\ \A k \in 1..(j - 1) : SubSeq(s, k, k) # "\n"
         IN  SubSeq(s, 1, i - 1)

\* `${n}` for an integer n
NumToString(n) == IF n < 0 THEN "-" \o ToString(-n) ELSE ToString(n)

(***************************************************************************)
(* Number(s) of a string (StringToNumber of the language).  Numbers of the *)
(* model are integers of TLC's width: a string that denotes a fraction or  *)
(* a larger number has no value here, and evaluating it is an error, never *)
(* another number.                                                         *)
(***************************************************************************)
DigitValue ==
    [d \in {"0", "1", "2", "3", "4", "5", "6", "7", "8", "9",
            "a", "b", "c", "d", "e", "f"} |->
        CASE d = "0" -> 0 [] d = "1" -> 1 [] d = "2" -> 2 [] d = "3" -> 3 [] d = "4" -> 4
          [] d = "5" -> 5 [] d = "6" -> 6 [] d = "7" -> 7 [] d = "8" -> 8 [] d = "9" -> 9
          [] d = "a" -> 10 [] d = "b" -> 11 [] d = "c" -> 12 [] d = "d" -> 13
          [] d = "e" -> 14 [] d = "f" -> 15]

\* c is a digit of the base (hexadecimal digits in either case)
IsDigitIn(c, base) ==
    ToLowerCase(c) \in DOMAIN DigitValue /\ DigitValue[ToLowerCase(c)] < base

IsDigitsIn(s, base) == s # "" /\ \A i \in 1..Len(s) : IsDigitIn(SubSeq(s, i, i), base)

IsDigits(s) == IsDigitsIn(s, 10)

RECURSIVE DigitsToNumberIn(_, _)
DigitsToNumberIn(s, base) ==
    IF s = "" THEN 0
    ELSE base * DigitsToNumberIn(SubSeq(s, 1, Len(s) - 1), base)
         + DigitValue[ToLowerCase(SubSeq(s, Len(s), Len(s)))]

DigitsToNumber(s) == DigitsToNumberIn(s, 10)

\* NaN, Infinity and -Infinity are the numbers that are not finite
NaN == [finite |-> FALSE, n |-> 0]
Finite(n) == [finite |-> TRUE, n |-> n]

Negated(x) == IF x.finite THEN Finite(0 - x.n) ELSE x

First1(s) == IF s = "" THEN "" ELSE SubSeq(s, 1, 1)
Rest(s) == SubSeq(s, 2, Len(s))

RECURSIVE CountDigits(_)
\* How many decimal digits s begins with
CountDigits(s) ==
    IF s # "" /\ IsDigitIn(SubSeq(s, 1, 1), 10) THEN 1 + CountDigits(Rest(s)) ELSE 0

RECURSIVE StripZeros(_)
\* digits without their leading zeros
StripZeros(digits) == IF First1(digits) = "0" THEN StripZeros(Rest(digits)) ELSE digits

RECURSIVE Pow10(_)
Pow10(k) == IF k = 0 THEN 1 ELSE 10 * Pow10(k - 1)

\* A number with a fraction: not a value of the model
NotAnInteger == CHOOSE n \in {} : TRUE

\* The largest decimal exponent of a finite double, and the exponent below
\* which a decimal rounds to 0
MaxDecimalExponent == 308
MinDecimalExponent == 0 - 325

\* ds * 10^k for significant digits ds (no leading zero)
ScaledSig(ds, k) ==
    IF ds = "" THEN Finite(0)
    ELSE IF Len(ds) + k > MaxDecimalExponent + 1 THEN NaN
    ELSE IF Len(ds) + k <= MinDecimalExponent THEN Finite(0)
    ELSE IF k >= 0 THEN Finite(DigitsToNumber(ds) * Pow10(k))
    ELSE IF /\ Len(ds) + k > 0
            /\ \A i \in (Len(ds) + k + 1)..Len(ds) : SubSeq(ds, i, i) = "0"
    THEN Finite(DigitsToNumber(SubSeq(ds, 1, Len(ds) + k)))
    ELSE Finite(NotAnInteger)

Scaled(digits, k) == ScaledSig(StripZeros(digits), k)

\* The value of the digits of an exponent; beyond four digits the result is
\* out of the doubles' range whatever the digits are
ExponentValue(d) ==
    IF Len(StripZeros(d)) > 4 THEN 9999 ELSE DigitsToNumber(StripZeros(d))

\* digits * 10^(x - fl) for the text x after the `e` of the literal
WithExponent(digits, fl, x) ==
    IF First1(x) = "-" /\ IsDigits(Rest(x)) THEN Scaled(digits, 0 - ExponentValue(Rest(x)) - fl)
    ELSE IF First1(x) = "+" /\ IsDigits(Rest(x)) THEN Scaled(digits, ExponentValue(Rest(x)) - fl)
    ELSE IF IsDigits(x) THEN Scaled(digits, ExponentValue(x) - fl)
    ELSE NaN

\* The literal int.frac followed by rest: an exponent part or nothing
AfterMantissa(int, frac, rest) ==
    IF int = "" /\ frac = "" THEN NaN
    ELSE IF rest = "" THEN Scaled(int \o frac, 0 - Len(frac))
    ELSE IF First1(rest) \in {"e", "E"} THEN WithExponent(int \o frac, Len(frac), Rest(rest))
    ELSE NaN

FractionFrom(int, r, j) == AfterMantissa(int, SubSeq(r, 1, j), SubSeq(r, j + 1, Len(r)))

AfterInteger(int, rest) ==
    IF First1(rest) = "." THEN FractionFrom(int, Rest(rest), CountDigits(Rest(rest)))
    ELSE AfterMantissa(int, "", rest)

DecimalFrom(u, i) == AfterInteger(SubSeq(u, 1, i), SubSeq(u, i + 1, Len(u)))

\* An unsigned decimal literal: Infinity, or digits with an optional
\* fraction and an optional exponent; NaN for any other text
UnsignedDecimal(u) == IF u = "Infinity" THEN NaN ELSE DecimalFrom(u, CountDigits(u))

\* 0x, 0o and 0b literals (no sign)
RadixOf(t) ==
    IF First1(t) # "0" \/ Len(t) < 2 THEN 10
    ELSE CASE SubSeq(t, 2, 2) \in {"x", "X"} -> 16
           [] SubSeq(t, 2, 2) \in {"o", "O"} -> 8
           [] SubSeq(t, 2, 2) \in {"b", "B"} -> 2
           [] OTHER -> 10

RadixLiteral(d, base) == IF IsDigitsIn(d, base) THEN Finite(DigitsToNumberIn(d, base)) ELSE NaN

\* Number(t) of a string without surrounding white space
TrimmedToNumber(t) ==
    IF t = "" THEN Finite(0)
    ELSE IF RadixOf(t) # 10 THEN RadixLiteral(SubSeq(t, 3, Len(t)), RadixOf(t))
    ELSE IF First1(t) = "-" THEN Negated(UnsignedDecimal(Rest(t)))
    ELSE IF First1(t) = "+" THEN UnsignedDecimal(Rest(t))
    ELSE UnsignedDecimal(t)

\* Number(s) of a string: white space is trimmed, the empty string is 0, a
\* numeric literal is its value, anything else is NaN.
StringToNumber(s) == TrimmedToNumber(Trim(s))

\* Number.isFinite(x) ? x : fallback
FiniteOr(x, fallback) == IF x.finite THEN x.n ELSE fallback

Pad3(n) ==
    IF n < 10 THEN "00" \o ToString(n)
    ELSE IF n < 100 THEN "0" \o ToString(n) ELSE ToString(n)

RECURSIVE GroupThousands(_)
\* Number.prototype.toLocaleString("en-US") of a non-negative integer
GroupThousands(n) ==
    IF n < 1000 THEN ToString(n)
    ELSE GroupThousands(n \div 1000) \o "," \o Pad3(n % 1000)

\* money(n): `$${x.toLocaleString("en-US")}`
Money(n) == IF n < 0 THEN "$-" \o GroupThousands(-n) ELSE "$" \o GroupThousands(n)

(***************************************************************************)
(* Objects, property access and string conversion                          *)
(***************************************************************************)
Obj(fields) == [t |-> "obj", f |-> fields]

\* v?.k : the property k of v, undefined when v is null or undefined or has no k
Get(v, k) == IF v.t = "obj" /\ k \in DOMAIN v.f THEN v.f[k] ELSE Undefined

\* a || b
OrElse(a, b) == IF Truthy(a) THEN a ELSE b

\* a ?? b
Coalesce(a, b) == IF IsNullish(a) THEN b ELSE a

RECURSIVE String(_)
RECURSIVE JoinElements(_)
\* Array.prototype.join(","): a null or undefined element joins as ""
JoinElements(xs) ==
    IF xs = <<>> THEN ""
    ELSE (IF IsNullish(xs[1]) THEN "" ELSE String(xs[1]))
         \o (IF Len(xs) = 1 THEN "" ELSE "," \o JoinElements(Tail(xs)))

\* String(v): an array is its elements joined with commas
String(v) ==
    CASE v.t = "str"       -> v.s
      [] v.t = "num"       -> NumToString(v.n)
      [] v.t = "null"      -> "null"
      [] v.t = "undefined" -> "undefined"
      [] v.t = "bool"      -> IF v.b THEN "true" ELSE "false"
      [] v.t = "arr"       -> JoinElements(v.items)
      [] OTHER             -> "[object Object]"

\* safeNumber(n, fallback): Number(n) when finite, else the fallback.
\* Number(null) is 0, Number(undefined) is NaN, Number(true) is 1, and a
\* string, an array or an object is converted through its string form.
SafeNumber(v, fallback) ==
    CASE v.t = "num"       -> v.n
      [] v.t = "null"      -> 0
      [] v.t = "bool"      -> IF v.b THEN 1 ELSE 0
      [] v.t = "undefined" -> fallback
      [] OTHER             -> FiniteOr(StringToNumber(String(v)), fallback)

\* The message of the TypeError that reading property k of null or undefined throws
TypeErrorReading(v, k) ==
    "Cannot read properties of " \o String(v) \o " (reading '" \o k \o "')"

\* The message of the TypeError that calling a missing method throws
NotAFunction(what) == what \o " is not a function"

(***************************************************************************)
(* fetchJson                                                               *)
(*                                                                         *)
(* What the network does to one call is an outcome chosen by the           *)
(* environment: either the call rejects (connection error, or the abort    *)
(* signal fired after timeoutMs), or a reply with a status and a body      *)
(* arrives.  A body is [text, valid, json]: its raw text, whether the text *)
(* is JSON, and the value it parses to.                                    *)
(***************************************************************************)
\* A thrown value: an Error of class `name` with a message
ThrowOf(name, msg) == [t |-> "throw", name |-> name, message |-> msg]

\* throw new Error(msg)
Throw(msg) == ThrowOf("Error", msg)

\* A TypeError of the runtime (a property of null read, a missing method
\* called, a fetch that could not connect)
TypeError(msg) == ThrowOf("TypeError", msg)

\* String(e), Error.prototype.toString: the name, then ": " and the message
\* when both are non-empty
ErrorToString(e) ==
    IF e.name = "" THEN e.message
    ELSE IF e.message = "" THEN e.name
    ELSE e.name \o ": " \o e.message

\* e?.message || String(e)
ErrorMessage(e) == IF e.message # "" THEN e.message ELSE ErrorToString(e)

HttpReply(status, body) == [t |-> "reply", status |-> status, body |-> body]

JsonBody(text, json) == [text |-> text, valid |-> TRUE, json |-> json]
TextBody(text)       == [text |-> text, valid |-> FALSE, json |-> Null]

\* try { json = JSON.parse(text); } catch {}   with json initially null
JsonParseOrNull(body) == IF body.valid THEN body.json ELSE Null

\* fetchJson(url, options, timeoutMs): there is a finally but no catch, so a
\* rejected fetch (connection error or abort) propagates to the caller.
FetchJson(outcome) ==
    IF outcome.t = "throw" THEN outcome
    ELSE [t |-> "ok",
          r |-> [ok     |-> (outcome.status >= 200 /\ outcome.status <= 299),
                 status |-> outcome.status,
                 json   |-> JsonParseOrNull(outcome.body),
                 text   |-> outcome.body.text]]

(***************************************************************************)
(* SourceResult                                                            *)
(***************************************************************************)
SourceResult(source, ok, error, data) ==
    [source |-> source, ok |-> ok, error |-> error, data |-> data]

NoResult == [t |-> "none"]

\* An adapter's promise: pending at `pc`, fulfilled with a result, or rejected.
\* `aux` is the local the adapter carries across awaits (acct, rSeed.json);
\* a fulfilled Salesforce promise keeps oppRecords, the records it fetched.
NoError == [t |-> "none"]
PendingWith(pc, aux) == [pc |-> pc, result |-> NoResult, thrown |-> NoError, aux |-> aux]
Pending(pc)     == PendingWith(pc, Null)
Returned(r)     == [pc |-> "returned", result |-> r, thrown |-> NoError, aux |-> Null]
Rejected(e)     == [pc |-> "thrown", result |-> NoResult, thrown |-> e, aux |-> Null]

\* r.json ?? { raw: r.text }
JsonOrRaw(r) == Coalesce(r.json, Obj([raw |-> Str(r.text)]))

(***************************************************************************)
(* 1) ServiceNow adapter                                                   *)
(***************************************************************************)
SnKeys == {"SN_TXI_URL", "SN_USERNAME", "SN_PASSWORD"}

\* getServiceNowSummary up to its first await
ServiceNowStart(e) ==
    IF ~(SnKeys \subseteq e)
    THEN Returned(SourceResult("ServiceNow", FALSE,
                  Str("Missing SN_TXI_URL / SN_USERNAME / SN_PASSWORD"), Null))
    ELSE Pending("fetch")

\* getServiceNowSummary after fetchJson settled
ServiceNowAfterFetch(outcome) ==
    LET f == FetchJson(outcome) IN
    IF f.t = "throw" THEN Rejected(f)
    ELSE IF ~f.r.ok
    THEN Returned(SourceResult("ServiceNow", FALSE,
                  Str("HTTP " \o NumToString(f.r.status)), JsonOrRaw(f.r)))
    ELSE LET result  == Get(f.r.json, "result")
             payload == IF Truthy(result) THEN result ELSE Coalesce(f.r.json, Null)
         IN  Returned(SourceResult("ServiceNow", TRUE, Null, payload))

(***************************************************************************)
(* 2) Salesforce adapter                                                   *)
(***************************************************************************)
SfKeys == {"SF_USERNAME", "SF_PASSWORD", "SF_TOKEN"}

\* What a jsforce call does: rejects with an error, or resolves to a value.
Resolve(v) == [t |-> "value", v |-> v]

SalesforceStart(e) ==
    IF ~(SfKeys \subseteq e)
    THEN Returned(SourceResult("Salesforce", FALSE,
                  Str("Missing SF_USERNAME / SF_PASSWORD / SF_TOKEN"), Null))
    ELSE Pending("login")

\* v?.length
LengthOf(v) ==
    CASE v.t = "arr" -> Num(Len(v.items))
      [] v.t = "str" -> Num(Len(v.s))
      [] OTHER       -> Get(v, "length")

\* v[0]
FirstOf(v) ==
    CASE v.t = "arr" -> IF Len(v.items) > 0 THEN v.items[1] ELSE Undefined
      [] v.t = "str" -> IF Len(v.s) > 0 THEN Str(SubSeq(v.s, 1, 1)) ELSE Undefined
      [] OTHER       -> Get(v, "0")

\* a?.records?.length is truthy: the first record as the account, else null.
\* Reading r.Id of a null or undefined first record throws a TypeError.
AccountOf(a) ==
    LET recs == Get(a, "records") IN
    IF Truthy(LengthOf(recs))
    THEN LET r == FirstOf(recs) IN
         IF IsNullish(r) THEN TypeError(TypeErrorReading(r, "Id"))
         ELSE Obj([id       |-> Get(r, "Id"),
                   name     |-> Get(r, "Name"),
                   industry |-> OrElse(Get(r, "Industry"), Null),
                   rating   |-> OrElse(Get(r, "Rating"), Null)])
    ELSE Null

\* Math.ceil(a / b) for b > 0
CeilDiv(a, b) == IF a % b = 0 THEN a \div b ELSE (a \div b) + 1

HoursPerDay == 24

\* 1000 * 60 * 60 * 24
MsPerDay == 1000 * 60 * 60 * HoursPerDay

\* const now = new Date(): the clock when the adapter runs, as the day since
\* 1970-01-01 (2026-01-15) and the milliseconds into that day (12:00 UTC)
NowDay == 20468
NowMsOfDay == 43200000

\* A time value: the day since 1970-01-01 and the milliseconds into it
Instant(day, ms) == [valid |-> TRUE, day |-> day, ms |-> ms]
InvalidDate == [valid |-> FALSE, day |-> 0, ms |-> 0]

\* new Date(n) of a number of milliseconds
InstantOfMs(n) == Instant(n \div MsPerDay, n % MsPerDay)

\* Days from 1970-01-01 to the day d of the month mp months after March of
\* the year yy (MakeDay: a day beyond the month's end runs into the next)
DaysFromMarch(yy, mp, d) ==
    (yy \div 400) * 146097 + (yy % 400) * 365 + (yy % 400) \div 4 - (yy % 400) \div 100
    + (153 * mp + 2) \div 5 + d - 1 - 719468

DaysFromCivil(y, m, d) == DaysFromMarch(IF m <= 2 THEN y - 1 ELSE y, (m + 9) % 12, d)

\* A text that the date parser may read in a way the model does not follow
NotModelled == CHOOSE x \in {} : TRUE

HasDigit(s) == \E i \in 1..Len(s) : IsDigitIn(SubSeq(s, i, i), 10)

\* YYYY-MM-DD with the month and the day as numbers
CivilDate(y, m, d) ==
    IF m >= 1 /\ m <= 12 /\ d >= 1 /\ d <= 31
    THEN Instant(DaysFromCivil(y, m, d), 0) ELSE NotModelled

\* Date.parse(s): the date-only forms YYYY, YYYY-MM and YYYY-MM-DD are
\* midnight UTC of that day; a text without a digit does not parse.  Other
\* texts with digits (times, the formats of the legacy parser) are not
\* followed by the model.
ParseDate(s) ==
    IF ~HasDigit(s) THEN InvalidDate
    ELSE IF Len(s) = 4 /\ IsDigits(s) THEN CivilDate(DigitsToNumber(s), 1, 1)
    ELSE IF /\ Len(s) = 7 /\ IsDigits(SubSeq(s, 1, 4)) /\ SubSeq(s, 5, 5) = "-"
            /\ IsDigits(SubSeq(s, 6, 7))
    THEN CivilDate(DigitsToNumber(SubSeq(s, 1, 4)), DigitsToNumber(SubSeq(s, 6, 7)), 1)
    ELSE IF /\ Len(s) = 10 /\ IsDigits(SubSeq(s, 1, 4)) /\ SubSeq(s, 5, 5) = "-"
            /\ IsDigits(SubSeq(s, 6, 7)) /\ SubSeq(s, 8, 8) = "-"
            /\ IsDigits(SubSeq(s, 9, 10))
    THEN CivilDate(DigitsToNumber(SubSeq(s, 1, 4)), DigitsToNumber(SubSeq(s, 6, 7)),
                   DigitsToNumber(SubSeq(s, 9, 10)))
    ELSE NotModelled

\* new Date(v): a number, a boolean or null is a count of milliseconds,
\* undefined is an invalid date, and a string, an array or an object is
\* parsed in its string form.
DateOf(v) ==
    CASE v.t = "num"       -> InstantOfMs(v.n)
      [] v.t = "bool"      -> InstantOfMs(IF v.b THEN 1 ELSE 0)
      [] v.t = "null"      -> InstantOfMs(0)
      [] v.t = "undefined" -> InvalidDate
      [] OTHER             -> ParseDate(String(v))

\* Math.ceil((d.getTime() - now.getTime()) / (1000 * 60 * 60 * 24)), 99999
\* for an invalid date
DaysFromNow(x) ==
    IF ~x.valid THEN 99999
    ELSE x.day - NowDay + (IF x.ms > NowMsOfDay THEN 1 ELSE 0)

\* daysUntil(dStr).  Date(hours) stands for a date string that parses to the
\* time `hours` hours after now; any other value is read by new Date.
DaysUntil(d) ==
    IF d.t = "date" THEN CeilDiv(d.hours, HoursPerDay) ELSE DaysFromNow(DateOf(d))

\* One element of oppRecords.map(...): reading r.Id of a null or undefined
\* record throws a TypeError
NormalizeOpp(r) ==
    IF IsNullish(r) THEN TypeError(TypeErrorReading(r, "Id"))
    ELSE [id          |-> Get(r, "Id"),
          name        |-> Get(r, "Name"),
          amount      |-> SafeNumber(Get(r, "Amount"), 0),
          stage       |-> Get(r, "StageName"),
          closeDate   |-> Get(r, "CloseDate"),
          probability |-> SafeNumber(Get(r, "Probability"), 0),
          closeInDays |-> IF Truthy(Get(r, "CloseDate"))
                          THEN Num(DaysUntil(Get(r, "CloseDate"))) ELSE Null]

ProbabilityThreshold == 30
CloseWindowDays == 45
AtRiskLimit == 10

\* The filter predicate of the at-risk heuristic
IsAtRisk(o) ==
    \/ o.probability <= ProbabilityThreshold
    \/ (o.closeInDays.t = "num" /\ o.closeInDays.n <= CloseWindowDays)

RECURSIVE Filter(_, _)
Filter(xs, keep) ==
    IF xs = <<>> THEN <<>>
    ELSE (IF keep[Head(xs)] THEN <<Head(xs)>> ELSE <<>>) \o Filter(Tail(xs), keep)

RECURSIVE InsertByAmount(_, _)
\* Insert o into a list sorted by amount descending, after its equals (stable)
InsertByAmount(sorted, o) ==
    IF sorted = <<>> THEN <<o>>
    ELSE IF Head(sorted).amount >= o.amount
         THEN <<Head(sorted)>> \o InsertByAmount(Tail(sorted), o)
         ELSE <<o>> \o sorted

RECURSIVE SortByAmountDesc(_)
\* .sort((a, b) => b.amount - a.amount)
SortByAmountDesc(xs) ==
    IF xs = <<>> THEN <<>>
    ELSE InsertByAmount(SortByAmountDesc(SubSeq(xs, 1, Len(xs) - 1)), xs[Len(xs)])

\* .slice(0, n)
Slice0(xs, n) == SubSeq(xs, 1, IF Len(xs) < n THEN Len(xs) ELSE n)

RECURSIVE SumAmount(_)
\* .reduce((s, o) => s + safeNumber(o.amount), 0)
SumAmount(xs) == IF xs = <<>> THEN 0 ELSE xs[1].amount + SumAmount(Tail(xs))

\* normalized.filter(...).sort(...).slice(0, 10)
AtRisk(oppRecords) ==
    LET normalized == [i \in 1..Len(oppRecords) |-> NormalizeOpp(oppRecords[i])]
        kept == Filter(normalized, [o \in {normalized[i] : i \in 1..Len(normalized)}
                                      |-> IsAtRisk(o)])
    IN  Slice0(SortByAmountDesc(kept), AtRiskLimit)

\* The ok:true result of getSalesforceSummary
SalesforceData(acct, oppRecords) ==
    LET atRisk == AtRisk(oppRecords) IN
    Obj([ebcAccount          |-> acct,
         atRiskSummary       |-> Obj([opportunityCount |-> Num(Len(atRisk)),
                                      totalAmount      |-> Num(SumAmount(atRisk))]),
         atRiskOpportunities |-> Arr(atRisk)])

\* after `await conn.login(...)`
SalesforceAfterLogin(outcome) ==
    IF outcome.t = "throw"
    THEN Returned(SourceResult("Salesforce", FALSE,
                  Str("Login failed: " \o ErrorMessage(outcome)), Null))
    ELSE Pending("q1")

\* after the Name='EBC HQ' account query: the catch is empty, and it also
\* swallows the TypeError of a null first record
SalesforceAfterNamedQuery(outcome) ==
    LET acct == IF outcome.t = "throw" THEN Null ELSE AccountOf(outcome.v) IN
    IF acct.t \in {"null", "throw"} THEN Pending("q2") ELSE PendingWith("opp", acct)

\* A variant that goes on to the opportunity query without an account
SalesforceAfterHotQuery_NoAccount(outcome) ==
    LET acct == IF outcome.t = "throw" THEN outcome ELSE AccountOf(outcome.v) IN
    IF acct.t = "throw"
    THEN Returned(SourceResult("Salesforce", FALSE,
                  Str("Account query failed: " \o ErrorMessage(acct)), Null))
    ELSE PendingWith("opp", acct)

\* after the Rating='Hot' account query: the catch reports a rejected
\* query and the TypeError of a null first record alike
SalesforceAfterHotQuery(outcome) ==
    LET acct == IF outcome.t = "throw" THEN outcome ELSE AccountOf(outcome.v) IN
    IF acct.t = "throw"
    THEN Returned(SourceResult("Salesforce", FALSE,
                  Str("Account query failed: " \o ErrorMessage(acct)), Null))
    ELSE IF acct.t = "null"
    THEN Returned(SourceResult("Salesforce", FALSE,
                  Str("No target account found (EBC HQ or Rating=Hot)."), Null))
    ELSE PendingWith("opp", acct)

\* after the Opportunity query: oppRecords = o?.records || [].  The map over
\* oppRecords is outside the try: a truthy value that is not an array, or a
\* null record, rejects the adapter's promise with a TypeError.
SalesforceAfterOppQuery(acct, outcome) ==
    IF outcome.t = "throw"
    THEN Returned(SourceResult("Salesforce", FALSE,
                  Str("Opportunity query failed: " \o ErrorMessage(outcome)),
                  Obj([ebcAccount |-> acct])))
    ELSE LET recs == OrElse(Get(outcome.v, "records"), Arr(<<>>))
             oppRecords == IF recs.t = "arr" THEN recs.items ELSE <<>>
             nullish == {i \in 1..Len(oppRecords) : IsNullish(oppRecords[i])}
         IN  IF recs.t # "arr" THEN Rejected(TypeError(NotAFunction("oppRecords.map")))
             ELSE IF nullish # {}
             THEN Rejected(NormalizeOpp(oppRecords[CHOOSE i \in nullish :
                                           \A j \in nullish : i <= j]))
             ELSE [Returned(SourceResult("Salesforce", TRUE, Null,
                                         SalesforceData(acct, oppRecords)))
                      EXCEPT !.aux = Arr(oppRecords)]

(***************************************************************************)
(* 3) SharePoint adapter                                                   *)
(***************************************************************************)
SpKeys == {"SP_CHAT_URL"}

\* isNoMatchText(s): the final version does not look for "no_match"; the
\* hardened version does (its last disjunct is implied by "couldn't find").
IsNoMatchText(v, s) ==
    LET t == ToLowerCase(s) IN
    IF v = "hardened"
    THEN \/ Includes(t, "no_match")
         \/ Includes(t, "couldn't find")
         \/ Includes(t, "could not find")
         \/ Includes(t, "no matching")
         \/ Includes(t, "try using an exact file name")
         \/ (Includes(t, "documents library") /\ Includes(t, "couldn't find"))
    ELSE \/ Includes(t, "couldn't find")
         \/ Includes(t, "could not find")
         \/ Includes(t, "no matching")
         \/ Includes(t, "i couldn't find any matching")
         \/ Includes(t, "try using an exact file name")

\* getSharePointSummary up to its first await (askSharePointAssistant(seeded))
SharePointStart(e) ==
    IF ~(SpKeys \subseteq e)
    THEN Returned(SourceResult("SharePoint", FALSE, Str("Missing SP_CHAT_URL"), Null))
    ELSE Pending("seed")

\* `HTTP ${r.status} or non-JSON`
\* A transport failure reported without its error text
SpTransportError_NullError(r) ==
    SourceResult("SharePoint", FALSE, Null, JsonOrRaw(r))

SpTransportError(r) ==
    SourceResult("SharePoint", FALSE,
                 Str("HTTP " \o NumToString(r.status) \o " or non-JSON"), JsonOrRaw(r))

\* String(json.answer || "")
AnswerOf(json) == String(OrElse(Get(json, "answer"), Str("")))

\* { ...json, note }
WithNote(json, note) ==
    IF json.t = "obj"
    THEN Obj([k \in (DOMAIN json.f) \cup {"note"} |->
                 IF k = "note" THEN Str(note) ELSE json.f[k]])
    ELSE Obj([note |-> Str(note)])

SeededNote(v) ==
    IF v = "hardened" THEN "Used seeded explicit lookup." ELSE "Used seeded-first lookup."

BroadNote(v) ==
    IF v = "hardened" THEN "Used anchored broad fallback." ELSE "Used broad fallback."

NoMatchError(v) ==
    IF v = "hardened"
    THEN "NO_MATCH: SharePoint assistant cannot enumerate/find files in 'Vation GTM' > 'Documents' (root/General). Likely wrong drive mapping or permissions for the assistant identity."
    ELSE "NO_MATCH: SharePoint assistant could not find seeded docs or relevant content (likely filename/permissions/indexing)."

\* The test on seededAnswer that sends the adapter to its second attempt
SeededIsNoMatch(v, answer) ==
    answer = "" \/ Trim(answer) = "NO_MATCH" \/ IsNoMatchText(v, answer)

\* The test on broadAnswer: only the hardened version compares with NO_MATCH
BroadIsNoMatch(v, answer) ==
    IF v = "hardened"
    THEN answer = "" \/ Trim(answer) = "NO_MATCH" \/ IsNoMatchText(v, answer)
    ELSE answer = "" \/ IsNoMatchText(v, answer)

\* A variant that also falls back to the broad prompt after a transport failure
SharePointAfterSeed_RetryOnFailure(v, outcome) ==
    LET f == FetchJson(outcome) IN
    IF f.t = "throw" THEN Rejected(f)
    ELSE IF ~f.r.ok \/ ~Truthy(f.r.json) THEN PendingWith("broad", f.r.json)
    ELSE IF SeededIsNoMatch(v, AnswerOf(f.r.json)) THEN PendingWith("broad", f.r.json)
    ELSE Returned(SourceResult("SharePoint", TRUE, Null,
                               WithNote(f.r.json, SeededNote(v))))

\* after the seeded attempt settled
SharePointAfterSeed(v, outcome) ==
    LET f == FetchJson(outcome) IN
    IF f.t = "throw" THEN Rejected(f)
    ELSE IF ~f.r.ok \/ ~Truthy(f.r.json) THEN Returned(SpTransportError(f.r))
    ELSE IF SeededIsNoMatch(v, AnswerOf(f.r.json)) THEN PendingWith("broad", f.r.json)
    ELSE Returned(SourceResult("SharePoint", TRUE, Null,
                               WithNote(f.r.json, SeededNote(v))))

\* after the broad attempt settled
SharePointAfterBroad(v, seedJson, outcome) ==
    LET f == FetchJson(outcome) IN
    IF f.t = "throw" THEN Rejected(f)
    ELSE IF ~f.r.ok \/ ~Truthy(f.r.json) THEN Returned(SpTransportError(f.r))
    ELSE IF BroadIsNoMatch(v, AnswerOf(f.r.json))
    THEN Returned(SourceResult("SharePoint", FALSE, Str(NoMatchError(v)),
                  Obj([seededAttempt |-> seedJson, broadAttempt |-> f.r.json])))
    ELSE Returned(SourceResult("SharePoint", TRUE, Null,
                               WithNote(f.r.json, BroadNote(v))))

(***************************************************************************)
(* 4) Canonical executive answer (the deterministic brief)                 *)
(***************************************************************************)
RECURSIVE JoinWith(_, _)
\* Array.prototype.join(sep) of an array of strings
JoinWith(parts, sep) ==
    IF parts = <<>> THEN ""
    ELSE IF Len(parts) = 1 THEN parts[1]
    ELSE parts[1] \o sep \o JoinWith(Tail(parts), sep)

TypeErrorMessage == TypeErrorReading(Null, "priority")

RECURSIVE FindPriority(_, _)
\* byP.find((x) => String(x.priority) === key): reading x.priority of a null
\* or undefined entry throws a TypeError; entries after a match are not read.
FindPriority(items, key) ==
    IF items = <<>> THEN Undefined
    ELSE IF IsNullish(Head(items)) THEN TypeError(TypeErrorReading(Head(items), "priority"))
    ELSE IF String(Get(Head(items), "priority")) = key THEN Head(items)
    ELSE FindPriority(Tail(items), key)

\* Array.isArray(snData.byPriority) ? snData.byPriority : []
ByPriority(snData) ==
    LET b == Get(snData, "byPriority") IN IF b.t = "arr" THEN b.items ELSE <<>>

\* sn?.data || {}
DataOf(r) == OrElse(r.data, Obj([x \in {} |-> Null]))

HighP1 == 50
HighTotal == 75
CombinedP1 == 20
CombinedTotal == 50
RevenueThreshold == 250000

\* The ladder of computeRiskLevel over the numbers it has read
RiskFrom(v, snR, spR, p1, totalHP, rev) ==
    IF ~snR.ok THEN Str("High - operational visibility is degraded right now.")
    ELSE IF p1 >= HighP1 \/ totalHP >= HighTotal
    THEN Str("High - customer experience and SLA commitments are at risk within the next 24 hours.")
    ELSE IF rev >= RevenueThreshold /\ (p1 >= CombinedP1 \/ totalHP >= CombinedTotal)
    THEN Str("High - combined ops disruption + revenue exposure needs executive coordination.")
    ELSE IF rev >= RevenueThreshold
    THEN Str("Medium - revenue exposure is material; protect top deals and reduce churn risk.")
    ELSE IF ~spR.ok
    THEN Str(IF v = "hardened"
             THEN "Medium - leadership context from SharePoint is missing; validate impacts with ops owners."
             ELSE "Medium - decision risk: knowledge signals are unavailable; validate impacts with ops owners.")
    ELSE Str(IF v = "hardened"
             THEN "Low/Medium - monitor closely; no immediate escalation beyond baseline."
             ELSE "Low/Medium - monitor closely; no immediate escalation signals beyond baseline.")

\* computeRiskLevel once byPriority.find(priority 1) returned f1 or threw
RiskAfterFind(v, snR, sfR, spR, f1) ==
    IF f1.t = "throw" THEN f1
    ELSE RiskFrom(v, snR, spR,
                  SafeNumber(Get(f1, "count"), 0),
                  SafeNumber(Get(DataOf(snR), "totalHighPriority"), 0),
                  SafeNumber(Get(Get(DataOf(sfR), "atRiskSummary"), "totalAmount"), 0))

\* computeRiskLevel({ sn, sf, sp })
ComputeRiskLevel(v, snR, sfR, spR) ==
    RiskAfterFind(v, snR, sfR, spR, FindPriority(ByPriority(DataOf(snR)), "1"))

TitleLine == "EXECUTIVE BRIEF - Today^s Primary Risk & Customer Impact"
Heading1 == "1. What^s happening (1 sentence, no jargon)"
Heading2 == "2. Why this matters (business impact)"
Heading3 == "3. Who is impacted (be specific, not generic)"
Heading4 == "4. Risk level (explicit, forced clarity)"
Heading5 == "5. Leadership attention required (decision-oriented)"

OkOrError(r) == IF r.ok THEN "OK" ELSE "error"

\* A footer that reports every source as healthy
TraceLine_AllOk(snR, sfR, spR) ==
    "Traceability: Salesforce(OK) | ServiceNow(OK) | SharePoint(OK)"

\* The traceability footer
TraceLine(snR, sfR, spR) ==
    "Traceability: Salesforce(" \o OkOrError(sfR) \o ") | ServiceNow(" \o
    OkOrError(snR) \o ") | SharePoint(" \o OkOrError(spR) \o ")"

WhatsHappening(v, snR, totalHP, p1, p2) ==
    IF snR.ok
    THEN IF v = "hardened"
         THEN "A spike of high-priority incidents is visible today: " \o NumToString(totalHP)
              \o " open (P1 " \o NumToString(p1) \o ", P2 " \o NumToString(p2) \o ")."
         ELSE "There are " \o NumToString(totalHP)
              \o " high-priority incidents open today (P1 " \o NumToString(p1)
              \o ", P2 " \o NumToString(p2)
              \o "), indicating elevated service disruption risk."
    ELSE (IF v = "hardened"
          THEN "ServiceNow signal is unavailable right now: "
          ELSE "Operational data is partially unavailable because ServiceNow summary failed: ")
         \o String(OrElse(snR.error, Str("unknown error"))) \o "."

WhyMatters(v, snR, sfR, spR, revCount, revAmount) ==
    JoinWith(
      (IF snR.ok
       THEN <<IF v = "hardened"
              THEN "If unresolved, this can extend customer downtime and risk SLA breaches."
              ELSE "If unresolved, outages may extend customer downtime and breach SLAs.">>
       ELSE <<>>) \o
      (IF sfR.ok /\ revCount > 0
       THEN <<"We also have " \o NumToString(revCount) \o " at-risk deal(s) worth ~"
              \o Money(revAmount) \o
              (IF v = "hardened" THEN " requiring proactive coverage."
               ELSE " that could slip without proactive coverage.")>>
       ELSE <<>>) \o
      (IF ~spR.ok
       THEN <<IF v = "hardened"
              THEN "SharePoint context is missing, increasing decision uncertainty for customer/region impact."
              ELSE "Additionally, leadership context from SharePoint is missing, increasing decision uncertainty.">>
       ELSE <<>>),
      " ")

SpSignal(v, spR) ==
    LET answer == Get(DataOf(spR), "answer")
        spAnswerLine == IF spR.ok /\ Truthy(answer) THEN Trim(String(answer)) ELSE ""
    IN  IF spR.ok
        THEN IF spAnswerLine # "" THEN FirstLine(spAnswerLine)
             ELSE IF v = "hardened" THEN "No additional SharePoint signal returned."
             ELSE "No additional knowledge signals returned."
        ELSE IF v = "hardened"
             THEN "SharePoint leadership context unavailable (assistant could not locate documents in Vation GTM > Documents)."
             ELSE "Knowledge signal unavailable - SharePoint lookup failed (likely filename/permissions/indexing)."

WhoImpacted(v, snR, sfR, spR, acctName, acctIndustry) ==
    LET spSignal == SpSignal(v, spR) IN
    JoinWith(
      (IF sfR.ok THEN <<"Commercial focus: " \o acctName \o " (" \o acctIndustry \o ").">>
       ELSE <<>>) \o
      (IF snR.ok
       THEN <<"Operational focus: customers tied to P1/P2 incidents and active SLA commitments.">>
       ELSE <<>>) \o
      (IF spR.ok /\ spSignal # ""
       THEN <<(IF v = "hardened" THEN "Document signal: " ELSE "Knowledge signals: ")
              \o spSignal>>
       ELSE <<>>),
      " ")

LeadershipAction(v, sfR, spR, revCount, acctName) ==
    JoinWith(
      <<IF v = "hardened"
        THEN "Confirm P1 owners + ETA now, and demand a 24-hour stabilization plan (containment + root cause)."
        ELSE "Confirm today^s P1 owners + ETA, and demand a 24-hour stabilization plan (root cause + containment).">> \o
      (IF sfR.ok /\ revCount > 0
       THEN <<"Protect revenue: executive sponsor outreach for " \o acctName
              \o " and top at-risk deals today.">>
       ELSE <<>>) \o
      (IF ~spR.ok
       THEN <<IF v = "hardened"
              THEN "Fix SharePoint: validate assistant permissions + correct drive mapping to Vation GTM > Documents (root/General), then re-test seeded filenames."
              ELSE "Fix knowledge visibility: validate SharePoint permissions + exact file names for seeded docs and re-test search.">>
       ELSE <<>>),
      " ")

\* The five sections of the brief and its footer, joined by newlines
BriefText(v, snR, sfR, spR, p1, p2, totalHP, revCount, revAmount, acctName, acctIndustry, risk) ==
    JoinWith(
      <<TitleLine, "",
        Heading1, WhatsHappening(v, snR, totalHP, p1, p2), "",
        Heading2, WhyMatters(v, snR, sfR, spR, revCount, revAmount), "",
        Heading3, WhoImpacted(v, snR, sfR, spR, acctName, acctIndustry), "",
        Heading4, "Risk: " \o risk, "",
        Heading5, LeadershipAction(v, sfR, spR, revCount, acctName), "",
        TraceLine(snR, sfR, spR)>>,
      "\n")

\* sfData.ebcAccount?.[field] || fallback
AccountField(sfR, field, fallback) ==
    String(OrElse(Get(Get(DataOf(sfR), "ebcAccount"), field), Str(fallback)))

\* safeNumber(sfData.atRiskSummary?.[field], 0)
SummaryField(sfR, field) ==
    SafeNumber(Get(Get(DataOf(sfR), "atRiskSummary"), field), 0)

\* The builder once both byPriority.find calls and computeRiskLevel have
\* returned (f1, f2, risk) or thrown
BriefAfterRisk(v, snR, sfR, spR, f1, f2, risk) ==
    IF f1.t = "throw" THEN f1
    ELSE IF f2.t = "throw" THEN f2
    ELSE IF risk.t = "throw" THEN risk
    ELSE Str(BriefText(v, snR, sfR, spR,
                       SafeNumber(Get(f1, "count"), 0),
                       SafeNumber(Get(f2, "count"), 0),
                       SafeNumber(Get(DataOf(snR), "totalHighPriority"), 0),
                       SummaryField(sfR, "opportunityCount"),
                       SummaryField(sfR, "totalAmount"),
                       AccountField(sfR, "name", "a key account"),
                       AccountField(sfR, "industry", "-"),
                       risk.s))

\* buildCanonicalExecutiveAnswer({ question, sources }): the brief as a
\* string, or the TypeError it throws on a null byPriority entry.
BuildCanonicalExecutiveAnswer(v, sources) ==
    BriefAfterRisk(v, sources.serviceNow, sources.salesforce, sources.sharePoint,
                   FindPriority(ByPriority(DataOf(sources.serviceNow)), "1"),
                   FindPriority(ByPriority(DataOf(sources.serviceNow)), "2"),
                   ComputeRiskLevel(v, sources.serviceNow, sources.salesforce,
                                    sources.sharePoint))

\* The brief b followed by the question
WithQuestion(b, question) ==
    IF b.t = "throw" THEN b ELSE Str(b.s \o "\nQuestion: " \o question)

\* A builder that echoes the question it was called with
CanonicalAnswer_EchoQuestion(v, question, sources) ==
    WithQuestion(BuildCanonicalExecutiveAnswer(v, sources), question)

\* buildCanonicalExecutiveAnswer({ question, sources }) as the handler calls
\* it: the question is destructured and never read
CanonicalAnswer(v, question, sources) == BuildCanonicalExecutiveAnswer(v, sources)

(***************************************************************************)
(* 5) Gemini polish                                                        *)
(***************************************************************************)
GuardMarkers ==
    <<"EXECUTIVE BRIEF",
      "1. What^s happening",
      "2. Why this matters",
      "3. Who is impacted",
      "4. Risk level",
      "5. Leadership attention required",
      "Traceability:">>

MinTemplateLength == 350

\* A guard that checks the five sections and the length but not the
\* Traceability line
LooksLikeCanonicalTemplate_NoTraceability(text) ==
    /\ \A i \in 1..(Len(GuardMarkers) - 1) : Includes(text, GuardMarkers[i])
    /\ Len(text) >= MinTemplateLength

\* looksLikeCanonicalTemplate(text)   (hardened version only)
LooksLikeCanonicalTemplate(text) ==
    /\ \A i \in 1..Len(GuardMarkers) : Includes(text, GuardMarkers[i])
    /\ Len(text) >= MinTemplateLength

\* isGeminiRateLimit(errText)
IsGeminiRateLimit(errText) ==
    LET t == ToLowerCase(errText) IN
    \/ Includes(t, "429")
    \/ Includes(t, "resource_exhausted")
    \/ Includes(t, "quota")
    \/ Includes(t, "rate")

DefaultGeminiModel == "gemini-2.5-flash"

\* (process.env.GEMINI_MODEL || "gemini-2.5-flash").trim()
GeminiModel(value) == Trim(String(OrElse(value, Str(DefaultGeminiModel))))

\* The value GEMINI_MODEL has in the environments that configure it
ConfiguredGeminiModel == "  gemini-2.0-flash  "

\* process.env.GEMINI_MODEL
GeminiModelOf(e) == IF "GEMINI_MODEL" \in e THEN Str(ConfiguredGeminiModel) ELSE Undefined

RECURSIVE JoinPartTexts(_)
\* parts.map((p) => p.text).join(""): an undefined or null text joins as "";
\* reading p.text of a null or undefined part throws a TypeError
JoinPartTexts(parts) ==
    IF parts = <<>> THEN Str("")
    ELSE IF IsNullish(Head(parts)) THEN TypeError(TypeErrorReading(Head(parts), "text"))
    ELSE LET x == Get(Head(parts), "text")
             rest == JoinPartTexts(Tail(parts))
         IN  IF rest.t = "throw" THEN rest
             ELSE Str((IF IsNullish(x) THEN "" ELSE String(x)) \o rest.s)

\* joined || parts?.[0]?.text || "": the second operand is returned as it
\* is, so a truthy text that is not a string (an array that joins to "")
\* comes back as that array
JoinedOrFirst(joined, first) ==
    IF joined.t = "throw" \/ joined.s # "" THEN joined
    ELSE IF Truthy(first) THEN first ELSE Str("")

\* parts?.map((p) => p.text).join(""): "" (undefined) without parts, a
\* TypeError for parts that are not an array
JoinedParts(parts) ==
    IF parts.t = "arr" THEN JoinPartTexts(parts.items)
    ELSE IF IsNullish(parts) THEN Str("")
    ELSE TypeError(NotAFunction("r.json?.candidates?.[0]?.content?.parts?.map"))

PartsText(parts) == JoinedOrFirst(JoinedParts(parts), Get(FirstOf(parts), "text"))

\* r.json?.candidates?.[0]?.content?.parts?.map(...).join("") || parts?.[0]?.text || "":
\* the text, or the TypeError of the map
CandidateText(json) ==
    PartsText(Get(Get(FirstOf(Get(json, "candidates")), "content"), "parts"))

\* { ok: true, text }
OkOut(text) ==
    IF text.t = "throw" THEN text
    ELSE [t |-> "out", ok |-> TRUE, status |-> 0, errText |-> "", text |-> text]

\* attemptOnce(): { ok:false, status, errText } | { ok:true, text } | throws.
\* status is 0 where the source leaves it undefined.
AttemptOnce(outcome) ==
    LET f == FetchJson(outcome) IN
    IF f.t = "throw" THEN f
    ELSE IF ~f.r.ok
    THEN [t |-> "out", ok |-> FALSE, status |-> f.r.status, errText |-> f.r.text,
          text |-> Undefined]
    ELSE OkOut(CandidateText(f.r.json))

\* out.ok && out.text?.trim(): the trimmed text ("" when the test is falsy);
\* a text that is not a string has no trim, and the call throws a TypeError
TrimmedText(out) ==
    IF ~out.ok \/ IsNullish(out.text) THEN Str("")
    ELSE IF out.text.t = "str" THEN Str(Trim(out.text.s))
    ELSE TypeError(NotAFunction("out.text?.trim"))

\* The text callGeminiPolish returned for `out`, "" when it returned none
PolishedText(out) == IF TrimmedText(out).t = "str" THEN TrimmedText(out).s ELSE ""

MaxAttempts == 2

\* out.status === 429 || out.status === 503 || isGeminiRateLimit(out.errText)
ShouldRetry(out) ==
    out.status = 429 \/ out.status = 503 \/ IsGeminiRateLimit(out.errText)

\* `Gemini failed (HTTP ${last?.status || "?"})`
GeminiFailed(last) ==
    [used |-> FALSE,
     error |-> Str("Gemini failed (HTTP " \o
                   (IF last.status # 0 THEN NumToString(last.status) ELSE "?") \o ")"),
     model |-> "", text |-> ""]

GeminiUsed(model, text) == [used |-> TRUE, error |-> Null, model |-> model, text |-> text]

GeminiNotConfigured ==
    [used |-> FALSE, error |-> Str("GEMINI_API_KEY not configured."), model |-> "", text |-> ""]

(***************************************************************************)
(* Handler                                                                 *)
(***************************************************************************)
NoResponse == [status |-> 0, body |-> [t |-> "none"]]

Sources(snP, sfP, spP) ==
    [serviceNow |-> snP.result, salesforce |-> sfP.result, sharePoint |-> spP.result]

\* if (gemini?.used && gemini?.text [&& looksLikeCanonicalTemplate(gemini.text)])
AcceptGemini(v, g) ==
    /\ g.used
    /\ g.text # ""
    /\ (v = "hardened" => LooksLikeCanonicalTemplate(g.text))

\* A descriptor that reports what the polish step returned, before the
\* handler's own acceptance test
GeminiDescriptor_AsReturned(v, g) ==
    IF g.used
    THEN [used |-> TRUE, model |-> g.model]
    ELSE [used |-> FALSE, error |-> OrElse(g.error, Null)]

\* The gemini descriptor of the 200 response
GeminiDescriptor(v, g) ==
    IF v = "hardened"
    THEN IF AcceptGemini(v, g)
         THEN [used |-> TRUE, model |-> g.model]
         ELSE [used |-> FALSE,
               error |-> OrElse(g.error, Str("Gemini output rejected by template guard."))]
    ELSE IF g.used
         THEN [used |-> TRUE, model |-> g.model]
         ELSE [used |-> FALSE, error |-> OrElse(g.error, Null)]

\* res.status(200).json({ question, combinedAnswer, sources, gemini, generatedAt })
Respond200(v, question, sources, brief, g) ==
    [status |-> 200,
     body |-> [question       |-> question,
               combinedAnswer |-> IF AcceptGemini(v, g) THEN g.text ELSE brief,
               sources        |-> sources,
               gemini         |-> GeminiDescriptor(v, g)]]

\* the catch of the handler
Respond500(e) ==
    [status |-> 500,
     body |-> [error |-> "FUNCTION_INVOCATION_FAILED", detail |-> ErrorMessage(e)]]

\* callGeminiPolish: the attempt in progress (0: none yet), the canonical
\* brief of the request, and what the latest attempt settled with.
IdleGemini == [attempt |-> 0, brief |-> "", out |-> [t |-> "none"]]

\* typeof body === "string" ? (try JSON.parse(body) catch {}) : body
ParsedBody(body) ==
    IF body.t = "raw"
    THEN IF body.body.valid THEN body.body.json ELSE Obj([x \in {} |-> Null])
    ELSE body

\* A check of the question's type that accepts the empty string
ValidQuestion_AnyString(q) == q.t = "str"

\* !question || typeof question !== "string"
ValidQuestion(q) == q.t = "str" /\ q.s # ""

\* One call of buildCanonicalExecutiveAnswer: what it was given, the
\* environment it ran in and what it returned or threw
BuilderCall(e, question, sources, out) ==
    [question |-> question, env |-> e, sources |-> sources, out |-> out]

\* The call with the time it was made at
At(call, t) ==
    [question |-> call.question, env |-> call.env, sources |-> call.sources,
     out |-> call.out, at |-> t]

\* const base = buildCanonicalExecutiveAnswer({ question, sources }) of
\* callGeminiPolish: the final handler's polish step builds the brief a
\* second time for its prompt; the hardened one is handed the first
PolishBase(v, e, question, sources, base) ==
    IF v = "final" THEN <<BuilderCall(e, question, sources, base)>> ELSE <<>>

\* The handler after Promise.all resolved, outs[1] being what its call of the
\* builder gives and outs[2] what the call in callGeminiPolish gives: the
\* builder's TypeError goes to the catch (built: the calls of the builder
\* made on the way); otherwise callGeminiPolish runs up to its first await.
AfterBrief(v, e, question, sources, outs) ==
    IF outs[1].t = "throw"
    THEN [hpc |-> "done", gem |-> IdleGemini, calls |-> 0,
          res |-> Respond500(outs[1]),
          built |-> <<BuilderCall(e, question, sources, outs[1])>>]
    ELSE IF "GEMINI_API_KEY" \notin e
    THEN [hpc |-> "done", gem |-> [IdleGemini EXCEPT !.brief = outs[1].s], calls |-> 0,
          res |-> Respond200(v, question, sources, outs[1].s, GeminiNotConfigured),
          built |-> <<BuilderCall(e, question, sources, outs[1])>>]
    ELSE [hpc |-> "gemini", gem |-> [IdleGemini EXCEPT !.attempt = 1, !.brief = outs[1].s],
          calls |-> 1, res |-> NoResponse,
          built |-> <<BuilderCall(e, question, sources, outs[1])>>
                    \o PolishBase(v, e, question, sources, outs[2])]

\* The handler with the sources Promise.all resolved to: each call of the
\* builder is given the same question and sources
AfterSources(v, e, question, sources) ==
    AfterBrief(v, e, question, sources,
               [call \in 1..2 |-> CanonicalAnswer(v, question, sources)])

\* Promise.all rejects with the reason of the first rejected promise
FirstThrown(ps) == ps[CHOOSE i \in 1..Len(ps) : ps[i].pc = "thrown"].thrown

\* What the handler does once Promise.all settles with the promises snP, sfP,
\* spP: the first rejection goes to the catch; otherwise the brief is built
\* and callGeminiPolish runs up to its first await.
AfterJoin(v, e, question, snP, sfP, spP) ==
    IF \E p \in {snP, sfP, spP} : p.pc = "thrown"
    THEN [hpc |-> "done", gem |-> IdleGemini, calls |-> 0,
          res |-> Respond500(FirstThrown(<<snP, sfP, spP>>)), built |-> <<>>]
    ELSE AfterSources(v, e, question, Sources(snP, sfP, spP))

(***************************************************************************)
(* Inputs: what the caller, the configuration and the external systems may *)
(* present to one request.                                                 *)
(***************************************************************************)
Versions == {"final", "hardened"}

EnvGroups == {SnKeys, SfKeys, SpKeys, {"GEMINI_API_KEY"}}
EnvKeys == UNION EnvGroups

\* Every combination of configured and absent groups, and every environment
\* in which exactly one variable is missing.
Envs ==
    {UNION gs : gs \in SUBSET EnvGroups} \cup {EnvKeys \ {k} : k \in EnvKeys}

Question == "What needs leadership attention today?"

Raw(body) == [t |-> "raw", body |-> body]
EmptyObject == Obj([x \in {} |-> Null])

Methods == {"OPTIONS", "GET", "POST", "DELETE"}

Bodies ==
    { Undefined,
      EmptyObject,
      Obj([question |-> Str(Question)]),
      Obj([question |-> Str("")]),
      Obj([question |-> Num(42)]),
      Obj([question |-> Null]),
      Raw(JsonBody("{\"question\":\"What needs leadership attention today?\"}",
                   Obj([question |-> Str(Question)]))),
      Raw(JsonBody("\"What needs leadership attention today?\"", Str(Question))),
      Raw(TextBody("question=What needs leadership attention today?")) }

Requests == [method : Methods, body : Bodies]

ConnectionError == "fetch failed"
AbortError == "This operation was aborted"
NetworkFailures == {TypeError(ConnectionError), ThrowOf("AbortError", AbortError)}

HtmlBody == TextBody("<html><body>Bad Gateway</body></html>")
ErrorJson == JsonBody("{\"error\":\"Internal Server Error\"}",
                      Obj([error |-> Str("Internal Server Error")]))

\* ---- ticketing endpoint ----
PriorityEntry(p, c) == Obj([priority |-> Str(p), count |-> Num(c)])

SnPayloads ==
    { Obj([totalHighPriority |-> Num(78),
           byPriority |-> Arr(<<PriorityEntry("1", 72), PriorityEntry("2", 6)>>)]),
      Obj([totalHighPriority |-> Num(12)]),
      Obj([totalHighPriority |-> Num(3),
           byPriority |-> Arr(<<PriorityEntry("2", 3), Null>>)]) }

SnOutcomes ==
    NetworkFailures
    \cup {HttpReply(200, JsonBody("{\"result\":{...}}", Obj([result |-> p]))) : p \in SnPayloads}
    \cup {HttpReply(200, JsonBody("{...}", p)) : p \in SnPayloads}
    \cup {HttpReply(200, HtmlBody), HttpReply(500, ErrorJson), HttpReply(503, HtmlBody)}

\* ---- CRM (jsforce) ----
LoginOutcomes == {Resolve(Obj([id |-> Str("005")])), Throw("INVALID_LOGIN")}

QueryResult(records) == Resolve(Obj([records |-> Arr(records)]))

NamedAccount ==
    Obj([Id |-> Str("001A"), Name |-> Str("EBC HQ"),
         Industry |-> Str("Real Estate"), Rating |-> Str("Warm")])
HotAccount ==
    Obj([Id |-> Str("001B"), Name |-> Str("Acme Towers"), Rating |-> Str("Hot")])

NamedQueryOutcomes ==
    {QueryResult(<<NamedAccount>>), QueryResult(<<>>), QueryResult(<<Null>>),
     Throw("INVALID_FIELD")}
HotQueryOutcomes ==
    {QueryResult(<<HotAccount>>), QueryResult(<<>>), Throw("REQUEST_LIMIT_EXCEEDED")}

Date(hours) == [t |-> "date", hours |-> hours]

OppRecords ==
    { Obj([Id |-> Str("006A"), Name |-> Str("Modernisation"), Amount |-> Num(240000),
           StageName |-> Str("Negotiation"), CloseDate |-> Date(2400),
           Probability |-> Num(20)]),
      Obj([Id |-> Str("006B"), Name |-> Str("Service renewal"), Amount |-> Num(90000),
           StageName |-> Str("Proposal"), CloseDate |-> Date(2400),
           Probability |-> Num(60)]) }

MaxOpps == 1

OppLists == UNION {[1..n -> OppRecords] : n \in 0..MaxOpps}

OppQueryOutcomes == {QueryResult(l) : l \in OppLists} \cup {Throw("QUERY_TIMEOUT")}

\* ---- SharePoint assistant (chat-sp) ----
AnswerJson(a) == JsonBody("{\"answer\":...}", Obj([answer |-> Str(a)]))

SpAnswers ==
    { "Key risk signals:\n- Lift outage | Tenants stranded | Dispatch crew",
      "",
      "NO_MATCH",
      "I couldn't find any matching files in the Documents library." }

\* The 500 reply of the assistant's own catch (src/api/chat-sp.js)
AssistantFailure ==
    JsonBody("{\"error\":...,\"details\":...}",
             Obj([error   |-> Str("Internal server error in SharePoint assistant. Please check logs or configuration."),
                  details |-> Str("TypeError: fetch failed")]))

SpOutcomes ==
    NetworkFailures
    \cup {HttpReply(200, AnswerJson(a)) : a \in SpAnswers}
    \cup {HttpReply(200, HtmlBody), HttpReply(500, ErrorJson), HttpReply(502, HtmlBody),
          HttpReply(500, AssistantFailure)}

\* ---- Gemini ----
RECURSIVE Filler(_)
Filler(n) ==
    IF n <= 0 THEN ""
    ELSE IF n % 2 = 0 THEN LET h == Filler(n \div 2) IN h \o h
    ELSE "x" \o Filler(n - 1)

\* A text holding the guard markers numbered in `present`, one per line,
\* filled up to `total` characters.
LlmText(present, total) ==
    LET idx == [i \in 1..Len(GuardMarkers) |-> i]
        kept == Filter(idx, [i \in 1..Len(GuardMarkers) |-> i \in present])
        base == JoinWith([i \in 1..Len(kept) |-> GuardMarkers[kept[i]]], "\n")
    IN  IF total > Len(base) THEN base \o "\n" \o Filler(total - Len(base) - 1) ELSE base

AllMarkers == 1..Len(GuardMarkers)

RECURSIVE TypedInAscii(_)
\* The text as typed on a keyboard: the ASCII apostrophe for the typographic one
TypedInAscii(s) ==
    IF Len(s) <= 1 THEN (IF s = "^" THEN "'" ELSE s)
    ELSE LET h == Len(s) \div 2 IN
         TypedInAscii(SubSeq(s, 1, h)) \o TypedInAscii(SubSeq(s, h + 1, Len(s)))

LongText == 400

LlmTexts ==
    { LlmText(AllMarkers, LongText),
      LlmText(AllMarkers, MinTemplateLength),
      TypedInAscii(LlmText(AllMarkers, LongText)),
      LlmText(AllMarkers, MinTemplateLength - 1),
      LlmText(AllMarkers, MinTemplateLength - 1) \o "\n",
      LlmText(AllMarkers, 0),
      LlmText({}, LongText),
      "Risk is high today.",
      "  \n ",
      "" }
    \cup {LlmText(AllMarkers \ {i}, LongText) : i \in AllMarkers}

CandidatesJson(text) ==
    JsonBody("{\"candidates\":[...]}",
             Obj([candidates |-> Arr(<<Obj([content |->
                     Obj([parts |-> Arr(<<Obj([text |-> Str(text)])>>)])])>>)]))

GeminiOutcomes ==
    NetworkFailures
    \cup {HttpReply(200, CandidatesJson(t)) : t \in LlmTexts}
    \cup {HttpReply(200, JsonBody("{}", EmptyObject)),
          HttpReply(200, HtmlBody),
          HttpReply(200, JsonBody("{\"candidates\":[{\"content\":{\"parts\":[null]}}]}",
                                  Obj([candidates |-> Arr(<<Obj([content |->
                                          Obj([parts |-> Arr(<<Null>>)])])>>)]))),
          HttpReply(200, JsonBody("{\"candidates\":[{\"content\":{\"parts\":[{\"text\":[]}]}}]}",
                                  Obj([candidates |-> Arr(<<Obj([content |->
                                          Obj([parts |-> Arr(<<Obj([text |-> Arr(<<>>)])>>)])])>>)]))),
          HttpReply(429, JsonBody("{\"error\":{\"status\":\"RESOURCE_EXHAUSTED\"}}",
                                  Obj([error |-> Str("RESOURCE_EXHAUSTED")]))),
          HttpReply(503, HtmlBody),
          HttpReply(500, ErrorJson),
          HttpReply(401, JsonBody("{\"error\":\"API key not valid.\"}",
                                  Obj([error |-> Str("API key not valid.")]))),
          HttpReply(404, JsonBody("{\"error\":\"model is not supported for generateContent\"}",
                                  Obj([error |-> Str("model is not supported for generateContent")])))}

\* The main classes of replies, used where another part is examined in detail
SnBasicOutcomes ==
    {HttpReply(200, JsonBody("{\"result\":{...}}", Obj([result |-> p]))) :
        p \in {q \in SnPayloads : Get(q, "byPriority").t = "arr"
                                  /\ Get(q, "totalHighPriority").n > 50}}
    \cup {HttpReply(500, ErrorJson)}

NamedBasicOutcomes == {QueryResult(<<NamedAccount>>), QueryResult(<<>>)}
HotBasicOutcomes == {QueryResult(<<HotAccount>>)}
OppBasicOutcomes == {QueryResult(<<r>>) : r \in {o \in OppRecords : Get(o, "Probability").n < 30}}

SpBasicOutcomes ==
    {HttpReply(200, AnswerJson(a)) : a \in {b \in SpAnswers : b = "" \/ Includes(b, "Key risk")}}

GeminiBasicOutcomes ==
    {TypeError(ConnectionError),
     HttpReply(200, CandidatesJson(LlmText(AllMarkers, LongText))),
     HttpReply(200, CandidatesJson("Risk is high today.")),
     HttpReply(200, JsonBody("{}", EmptyObject)),
     HttpReply(429, JsonBody("{\"error\":{\"status\":\"RESOURCE_EXHAUSTED\"}}",
                             Obj([error |-> Str("RESOURCE_EXHAUSTED")]))),
     HttpReply(500, ErrorJson)}

(***************************************************************************)
(* The state machine of one request                                        *)
(***************************************************************************)
NoCalls == [sn |-> 0, sfLogin |-> 0, sfQuery |-> 0, sp |-> 0, gemini |-> 0]

\* The signals endpoint is a separate handler; it is idle while the dashboard
\* handler serves a request.
IdleSignals == [pc |-> "idle", i |-> 0, filesFound |-> <<>>, combinedText |-> "", meta |-> Null]

\* So is the chat-sp handler, which runs in the assistant's deployment.
IdleChat ==
    [pc |-> "idle", driveId |-> Undefined, results |-> <<>>, supported |-> <<>>,
     i |-> 0, extracted |-> <<>>, llmCalls |-> 0]

\* The state when the request reaches the handler
Arrival(vs, es, rs) ==
    /\ version \in vs
    /\ env \in es
    /\ req \in rs
    /\ hpc = "recv"
    /\ sn = Pending("idle")
    /\ sf = Pending("idle")
    /\ sp = Pending("idle")
    /\ gem = IdleGemini
    /\ res = NoResponse
    /\ net = NoCalls
    /\ sig = IdleSignals
    /\ chat = IdleChat
    /\ now = 0
    /\ built = <<>>

Init == Arrival(Versions, Envs, Requests)

\* body?.question after the body was parsed
QuestionOf(r) == Get(ParsedBody(r.body), "question")

\* Number of network calls an adapter promise has just issued
Issued(p, pcs) == IF p.pc \in pcs THEN 1 ELSE 0

\* The handler moves on as h says, with the calls counted in net2
Proceed(h, net2) ==
    /\ hpc' = h.hpc
    /\ gem' = h.gem
    /\ res' = h.res
    /\ net' = [net2 EXCEPT !.gemini = @ + h.calls]
    /\ built' = built \o [i \in 1..Len(h.built) |-> At(h.built[i], now)]

\* The handler's reaction to the adapters' promises becoming snP, sfP, spP
\* while it awaits Promise.all; net2 counts the calls issued so far.
Settle(snP, sfP, spP, net2) ==
    /\ sn' = snP
    /\ sf' = sfP
    /\ sp' = spP
    /\ IF /\ hpc \in {"recv", "fanout"}
          /\ \/ \E q \in {snP, sfP, spP} : q.pc = "thrown"
             \/ \A q \in {snP, sfP, spP} : q.pc = "returned"
       THEN \E h \in {AfterJoin(version, env, QuestionOf(req).s, snP, sfP, spP)} :
               Proceed(h, net2)
       ELSE /\ hpc' = IF hpc = "recv" THEN "fanout" ELSE hpc
            /\ gem' = gem
            /\ res' = res
            /\ net' = net2
            /\ built' = built

\* handler(req, res) up to `await Promise.all([...])`
Receive ==
    /\ hpc = "recv"
    /\ UNCHANGED <<chat, sig, version, env, req, now>>
    /\ IF req.method = "OPTIONS"
       THEN /\ res' = [status |-> 200, body |-> [t |-> "end"]]
            /\ hpc' = "done"
            /\ UNCHANGED <<sn, sf, sp, gem, net, built>>
       ELSE IF req.method # "POST"
       THEN /\ res' = [status |-> 405, body |-> [error |-> "POST only"]]
            /\ hpc' = "done"
            /\ UNCHANGED <<sn, sf, sp, gem, net, built>>
       ELSE IF ~ValidQuestion(QuestionOf(req))
       THEN /\ res' = [status |-> 400, body |-> [error |-> "Missing \"question\" (string)."]]
            /\ hpc' = "done"
            /\ UNCHANGED <<sn, sf, sp, gem, net, built>>
       ELSE LET snP == ServiceNowStart(env)
                sfP == SalesforceStart(env)
                spP == SharePointStart(env)
            IN  Settle(snP, sfP, spP,
                       [net EXCEPT !.sn = @ + Issued(snP, {"fetch"}),
                                   !.sfLogin = @ + Issued(sfP, {"login"}),
                                   !.sp = @ + Issued(spP, {"seed"})])

\* The ticketing endpoint's reply (or the failure of the call) arrives.
ServiceNowReply(outcomes) ==
    /\ sn.pc = "fetch"
    /\ \E o \in outcomes : Settle(ServiceNowAfterFetch(o), sf, sp, net)
    /\ UNCHANGED <<chat, sig, version, env, req, now>>

\* conn.login settles.
SalesforceLoginReply(outcomes) ==
    /\ sf.pc = "login"
    /\ \E o \in outcomes :
          LET sfP == SalesforceAfterLogin(o) IN
          Settle(sn, sfP, sp, [net EXCEPT !.sfQuery = @ + Issued(sfP, {"q1"})])
    /\ UNCHANGED <<chat, sig, version, env, req, now>>

\* The Name='EBC HQ' account query settles.
SalesforceNamedReply(outcomes) ==
    /\ sf.pc = "q1"
    /\ \E o \in outcomes :
          LET sfP == SalesforceAfterNamedQuery(o) IN
          Settle(sn, sfP, sp, [net EXCEPT !.sfQuery = @ + Issued(sfP, {"q2", "opp"})])
    /\ UNCHANGED <<chat, sig, version, env, req, now>>

\* The Rating='Hot' account query settles.
SalesforceHotReply(outcomes) ==
    /\ sf.pc = "q2"
    /\ \E o \in outcomes :
          LET sfP == SalesforceAfterHotQuery(o) IN
          Settle(sn, sfP, sp, [net EXCEPT !.sfQuery = @ + Issued(sfP, {"opp"})])
    /\ UNCHANGED <<chat, sig, version, env, req, now>>

\* The Opportunity query settles.
SalesforceOppReply(outcomes) ==
    /\ sf.pc = "opp"
    /\ \E o \in outcomes : Settle(sn, SalesforceAfterOppQuery(sf.aux, o), sp, net)
    /\ UNCHANGED <<chat, sig, version, env, req, now>>

\* The assistant's reply to the seeded prompt arrives.
SharePointSeedReply(outcomes) ==
    /\ sp.pc = "seed"
    /\ \E o \in outcomes :
          LET spP == SharePointAfterSeed(version, o) IN
          Settle(sn, sf, spP, [net EXCEPT !.sp = @ + Issued(spP, {"broad"})])
    /\ UNCHANGED <<chat, sig, version, env, req, now>>

\* The assistant's reply to the broad prompt arrives.
SharePointBroadReply(outcomes) ==
    /\ sp.pc = "broad"
    /\ \E o \in outcomes : Settle(sn, sf, SharePointAfterBroad(version, sp.aux, o), net)
    /\ UNCHANGED <<chat, sig, version, env, req, now>>

\* What callGeminiPolish and the handler do when one attempt settles with
\* `out`: the rejected fetch reaches the handler's catch, or the text is
\* returned and the handler responds, or the loop backs off
\* (sleep(900 * i)), or it breaks and the handler responds with the brief.
AfterText(v, e, question, sources, g2, out, text) ==
    IF text.t = "throw"
    THEN [hpc |-> "done", gem |-> g2, res |-> Respond500(text)]
    ELSE IF text.s # ""
    THEN [hpc |-> "done", gem |-> g2,
          res |-> Respond200(v, question, sources, g2.brief,
                             GeminiUsed(GeminiModel(GeminiModelOf(e)), text.s))]
    ELSE IF ShouldRetry(out)
    THEN [hpc |-> "backoff", gem |-> g2, res |-> NoResponse]
    ELSE [hpc |-> "done", gem |-> g2,
          res |-> Respond200(v, question, sources, g2.brief, GeminiFailed(out))]

AfterAttempt(v, e, question, sources, g, out) ==
    IF out.t = "throw"
    THEN [hpc |-> "done", gem |-> [g EXCEPT !.out = out], res |-> Respond500(out)]
    ELSE AfterText(v, e, question, sources, [g EXCEPT !.out = out], out, TrimmedText(out))

\* One attempt of callGeminiPolish settles.
GeminiReply(outcomes) ==
    /\ hpc = "gemini"
    /\ \E o \in outcomes :
          LET h == AfterAttempt(version, env, QuestionOf(req).s, Sources(sn, sf, sp),
                                gem, AttemptOnce(o))
          IN  /\ hpc' = h.hpc
              /\ gem' = h.gem
              /\ res' = h.res
    /\ UNCHANGED <<chat, sig, version, env, req, now, built, sn, sf, sp, net>>

\* sleep(900 * i) is over: the loop makes its next attempt, or ends after
\* MaxAttempts and the step reports the last failure.
BackoffOver ==
    /\ hpc = "backoff"
    /\ IF gem.attempt < MaxAttempts
       THEN /\ gem' = [gem EXCEPT !.attempt = @ + 1]
            /\ net' = [net EXCEPT !.gemini = @ + 1]
            /\ hpc' = "gemini"
            /\ res' = res
       ELSE /\ res' = Respond200(version, QuestionOf(req).s, Sources(sn, sf, sp), gem.brief,
                                 GeminiFailed(gem.out))
            /\ hpc' = "done"
            /\ UNCHANGED <<gem, net>>
    /\ UNCHANGED <<chat, sig, version, env, req, now, built, sn, sf, sp>>

\* Every behaviour of the three backends, with the main classes of Gemini
\* replies.
Next ==
    \/ Receive
    \/ ServiceNowReply(SnOutcomes)
    \/ SalesforceLoginReply(LoginOutcomes)
    \/ SalesforceNamedReply(NamedQueryOutcomes)
    \/ SalesforceHotReply(HotQueryOutcomes)
    \/ SalesforceOppReply(OppQueryOutcomes)
    \/ SharePointSeedReply(SpOutcomes)
    \/ SharePointBroadReply(SpOutcomes)
    \/ GeminiReply(GeminiBasicOutcomes)
    \/ BackoffOver

Spec == Init /\ [][Next]_vars

(***************************************************************************)
(* The polish step in detail: a configured deployment whose backends show  *)
(* their main behaviours, with every Gemini reply.                         *)
(***************************************************************************)
InitPolish ==
    Arrival(Versions, {EnvKeys, EnvKeys \ {"GEMINI_API_KEY"}, EnvKeys \cup {"GEMINI_MODEL"}},
            {[method |-> "POST", body |-> Obj([question |-> Str(Question)])]})

NextPolish ==
    \/ Receive
    \/ ServiceNowReply(SnBasicOutcomes)
    \/ SalesforceLoginReply(LoginOutcomes)
    \/ SalesforceNamedReply(NamedBasicOutcomes)
    \/ SalesforceHotReply(HotBasicOutcomes)
    \/ SalesforceOppReply(OppBasicOutcomes)
    \/ SharePointSeedReply(SpBasicOutcomes)
    \/ SharePointBroadReply(SpBasicOutcomes)
    \/ GeminiReply(GeminiOutcomes)
    \/ BackoffOver

SpecPolish == InitPolish /\ [][NextPolish]_vars

(***************************************************************************)
(* The SharePoint assistant (src/api/chat-sp.js) behind SP_CHAT_URL: what  *)
(* it answers for the files its search found.  Of its reply the dashboard  *)
(* reads the status and `answer`.                                          *)
(***************************************************************************)
RECURSIVE AfterLastDot(_)
\* name.split(".") and its last part
AfterLastDot(name) ==
    IF ~Includes(name, ".") THEN name
    ELSE LET i == CHOOSE j \in 1..Len(name) : SubSeq(name, j, j) = "." IN
         AfterLastDot(SubSeq(name, i + 1, Len(name)))

\* getExtension(name)
GetExtension(name) ==
    IF ~Includes(name, ".") THEN "" ELSE ToLowerCase(AfterLastDot(name))

\* getExt(name)
GetExt(name) == ToLowerCase(AfterLastDot(name))

\* isSupportedExtension(ext), isAllowed(ext)
SupportedExtensions == {"docx", "xlsx", "txt", "csv"}

NoFilesAnswer ==
    "I couldn't find any matching SharePoint files in the VationGTM Documents library. Try using an exact file name like 'EBC_Account_Health_Risk.docx' or a strong keyword from inside the document."

UnsupportedAnswer ==
    "I found files for your search, but none are in a supported format for summarisation (allowed: .docx, .xlsx, .txt, .csv)."

NotConfiguredAnswer ==
    "Files found, but Gemini summarisation is not configured (GEMINI_API_KEY missing)."

\* The handler that summarises the top supported files: its `answer` for
\* the search results `files` (names), with or without a Gemini key, when
\* callGeminiSummary returns `summary`.
ChatSpAnswer(files, keyed, summary) ==
    LET supported == Filter(files, [n \in {files[i] : i \in 1..Len(files)} |->
                                       GetExtension(n) \in SupportedExtensions])
    IN  IF Len(files) = 0 THEN NoFilesAnswer
        ELSE IF Len(supported) = 0 THEN UnsupportedAnswer
        ELSE IF ~keyed THEN NotConfiguredAnswer
        ELSE IF summary # "" THEN summary ELSE "I couldn't generate a summary."

NoFilesSingleAnswer ==
    "I couldn't find any matching SharePoint files in the VationGTM Documents library. Try using the exact file name or a keyword from inside the document."

UnsupportedSingleAnswer ==
    "I found files but none are supported. Allowed formats: .txt, .csv, .docx, .xlsx"

UnreadableAnswer ==
    "I located the file, but I could not extract readable text from it."

\* The handler that summarises the first allowed file: its `answer` when
\* extractText gives `text` and callGeminiSummary returns `summary`.
ChatSpSingleAnswer(files, text, summary) ==
    LET allowed == Filter(files, [n \in {files[i] : i \in 1..Len(files)} |->
                                     GetExt(n) \in SupportedExtensions])
    IN  IF Len(files) = 0 THEN NoFilesSingleAnswer
        ELSE IF Len(allowed) = 0 THEN UnsupportedSingleAnswer
        ELSE IF Trim(text) = "" THEN UnreadableAnswer
        ELSE IF summary # "" THEN summary ELSE "No content"

\* Search results, extracted texts and summaries
FoundFiles ==
    { <<>>,
      <<"Board_Deck.pdf">>,
      <<"Board_Deck.pdf", "EBC_Account_Health_Risk.DOCX">>,
      <<"README">> }

ExtractedTexts == {"", " \n", "Lift outage at EBC HQ since Monday."}

Summaries ==
    {"Key risk signals:\n- Lift outage | Tenants stranded | Dispatch crew", "NO_MATCH", ""}

ChatSpOutcomes ==
    {HttpReply(200, AnswerJson(ChatSpAnswer(f, k, s))) :
        f \in FoundFiles, k \in BOOLEAN, s \in Summaries}
    \cup {HttpReply(200, AnswerJson(ChatSpSingleAnswer(f, t, s))) :
        f \in FoundFiles, t \in ExtractedTexts, s \in Summaries}
    \cup {HttpReply(500, ErrorJson),
          HttpReply(200, AnswerJson("\fNO_MATCH\f")),
          HttpReply(200, JsonBody("{\"answer\":[\"NO_MATCH\"]}",
                                  Obj([answer |-> Arr(<<Str("NO_MATCH")>>)])))}

\* A deployment with only the SharePoint assistant configured
InitAssistant == Arrival(Versions, {SpKeys}, Requests)

NextAssistant ==
    \/ Receive
    \/ SharePointSeedReply(ChatSpOutcomes)
    \/ SharePointBroadReply(ChatSpOutcomes)

SpecAssistant == InitAssistant /\ [][NextAssistant]_vars

(***************************************************************************)
(* The SharePoint signals endpoint (src/api/sharepoint-signals.js): a      *)
(* second handler, which reads the seeded files through Microsoft Graph.   *)
(* It awaits one call at a time: token, site search, drive list, then for  *)
(* each candidate path a lookup and, on a new hit, a content download.     *)
(* Non-ASCII characters of its messages are written in ASCII here.         *)
(***************************************************************************)
MsKeys == {"MS_TENANT_ID", "MS_CLIENT_ID", "MS_CLIENT_SECRET"}

SiteName == "Vation GTM"
DriveName == "Documents"

Targets ==
    << "Annual EBC Review Notes.txt",
       "EBC_Account_Health_Risk.docx",
       "IT_Operations_Weekly_Report.docx",
       "Sales_Risk_Accounts_List.docx" >>

\* for (const f of targets) { push(f); push(`General/${f}`) }
CandidatePaths ==
    [i \in 1..(2 * Len(Targets)) |->
        IF i % 2 = 1 THEN Targets[(i + 1) \div 2]
        ELSE "General/" \o Targets[i \div 2]]

DocxMime == "application/vnd.openxmlformats-officedocument.wordprocessingml.document"

SignalsNoMatch ==
    "NO_MATCH: Could not locate seeded files in Vation GTM > Documents (root or General). Check permissions and drive mapping."

SignalsNoText ==
    "FOUND_FILES_BUT_NO_TEXT: Files exist but text extraction returned empty (check file types/permissions)."

ClipMax == 8000

RECURSIVE ReplaceCrLf(_)
\* text.replace(/\r\n/g, "\n")
ReplaceCrLf(s) ==
    IF ~Includes(s, "\r\n") THEN s
    ELSE LET i == CHOOSE j \in 1..(Len(s) - 1) :
                     /\ SubSeq(s, j, j + 1) = "\r\n"
                     /\ \A k \in 1..(j - 1) : SubSeq(s, k, k + 1) # "\r\n"
         IN  SubSeq(s, 1, i - 1) \o "\n" \o ReplaceCrLf(SubSeq(s, i + 2, Len(s)))

\* clip(text, max)
Clip(text, max) ==
    LET t == Trim(ReplaceCrLf(text)) IN
    IF Len(t) <= max THEN t ELSE SubSeq(t, 1, max) \o "\n.(truncated)"

\* The JSON payload every 200 answer of the endpoint carries
SignalsPayload(ok, error, filesFound, signalsText) ==
    [source |-> "SharePoint", ok |-> ok, error |-> error,
     filesFound |-> filesFound, signalsText |-> signalsText]

\* catch (e): error is e?.message || String(e)
SignalsCaught(e) ==
    [status |-> 200,
     body   |-> SignalsPayload(FALSE,
                               Str(ErrorMessage(e)),
                               <<>>, "")]

\* A variant that reports success whenever a seeded file was located
SignalsAnswer_OkWhenFound(filesFound, combinedText) ==
    IF Len(filesFound) = 0
    THEN [status |-> 200, body |-> SignalsPayload(FALSE, Str(SignalsNoMatch), <<>>, "")]
    ELSE [status |-> 200,
          body   |-> SignalsPayload(TRUE, Null, filesFound, Clip(combinedText, ClipMax))]

\* The two answers after the loop over the candidate paths
SignalsAnswer(filesFound, combinedText) ==
    IF Len(filesFound) = 0
    THEN [status |-> 200, body |-> SignalsPayload(FALSE, Str(SignalsNoMatch), <<>>, "")]
    ELSE LET hasText == Len(Trim(combinedText)) > 0 IN
         [status |-> 200,
          body   |-> SignalsPayload(hasText,
                                    IF hasText THEN Null ELSE Str(SignalsNoText),
                                    filesFound,
                                    Clip(combinedText, ClipMax))]

\* `${what} HTTP ${r.status}: ${r.text}`
HttpFailure(what, r) ==
    Throw(what \o " HTTP " \o NumToString(r.status) \o ": " \o r.text)

\* getGraphToken() after its fetchJson settled: the token, or what it throws
GetGraphToken(outcome) ==
    LET f == FetchJson(outcome) IN
    IF f.t = "throw" THEN f
    ELSE IF ~f.r.ok THEN HttpFailure("Token failed", f.r)
    ELSE IF ~Truthy(Get(f.r.json, "access_token")) THEN Throw("Token missing access_token")
    ELSE [t |-> "value", v |-> Get(f.r.json, "access_token")]

\* r.json?.value || []
ValueList(json) == OrElse(Get(json, "value"), Arr(<<>>))

RECURSIVE FindNamed(_, _)
\* list.find(x => String(x.name || "").toLowerCase() === name.toLowerCase()):
\* reading x.name of a null or undefined entry throws a TypeError; entries
\* after a match are not read
FindNamed(list, name) ==
    IF list = <<>> THEN Undefined
    ELSE IF IsNullish(Head(list)) THEN TypeError(TypeErrorReading(Head(list), "name"))
    ELSE IF ToLowerCase(String(OrElse(Get(Head(list), "name"), Str("")))) = ToLowerCase(name)
    THEN Head(list)
    ELSE FindNamed(Tail(list), name)

\* values.find(...) || values[0], where values is r.json?.value || []: a
\* value that is not an array has no find (`what` names it in the TypeError)
BestNamed(values, name, what) ==
    IF values.t # "arr" THEN TypeError(NotAFunction(what \o ".find"))
    ELSE LET exact == FindNamed(values.items, name) IN
         IF exact.t = "throw" THEN exact
         ELSE OrElse(exact, FirstOf(values))

\* findSiteId(token, siteName) after its graphGET settled
FindSiteId(outcome) ==
    LET f == FetchJson(outcome) IN
    IF f.t = "throw" THEN f
    ELSE IF ~f.r.ok THEN HttpFailure("Site search failed", f.r)
    ELSE LET best == BestNamed(ValueList(f.r.json), SiteName, "sites") IN
         IF best.t = "throw" THEN best
         ELSE IF ~Truthy(Get(best, "id"))
         THEN Throw("No site found for search \"" \o SiteName \o "\"")
         ELSE [t |-> "value", v |-> Get(best, "id")]

\* findDriveId(token, siteId, driveName) after its graphGET settled
FindDriveId(outcome) ==
    LET f == FetchJson(outcome) IN
    IF f.t = "throw" THEN f
    ELSE IF ~f.r.ok THEN HttpFailure("Drives fetch failed", f.r)
    ELSE LET best == BestNamed(ValueList(f.r.json), DriveName, "drives") IN
         IF best.t = "throw" THEN best
         ELSE IF ~Truthy(Get(best, "id"))
         THEN Throw("No drive found on site for \"" \o DriveName \o "\"")
         ELSE [t |-> "value", v |-> Get(best, "id")]

\* tryGetDriveItemByPath(token, driveId, path) after its graphGET settled
TryGetDriveItemByPath(outcome) ==
    LET f == FetchJson(outcome) IN
    IF f.t = "throw" THEN f
    ELSE IF ~f.r.ok THEN [t |-> "value", ok |-> FALSE, status |-> f.r.status, meta |-> Null]
    ELSE IF ~Truthy(Get(f.r.json, "id"))
         THEN [t |-> "value", ok |-> FALSE, status |-> f.r.status, meta |-> Null]
    ELSE [t |-> "value", ok |-> TRUE, status |-> 200, meta |-> f.r.json]

\* String.prototype.endsWith / startsWith
EndsWith(s, m) == Len(s) >= Len(m) /\ SubSeq(s, Len(s) - Len(m) + 1, Len(s)) = m
StartsWith(s, m) == Len(s) >= Len(m) /\ SubSeq(s, 1, Len(m)) = m

\* What a content download delivers: the text its bytes decode to, and
\* whether mammoth can open them as a .docx archive.
Bytes(text, docx) == [text |-> text, docx |-> docx]

MammothError == "Can't find end of central directory : is this a zip file ?"

\* The text mammoth.extractRawText gives, or the error it throws
DocxText(bytes) ==
    IF bytes.docx THEN [t |-> "value", v |-> bytes.text] ELSE Throw(MammothError)

\* readFileContent with name = itemMeta.name || "" and mime =
\* itemMeta.file?.mimeType || "" as they are: a truthy name or mime type that
\* is not a string has no toLowerCase or startsWith, and the call throws a
\* TypeError (after the download, and only where the test reaches it)
ReadAs(name, mime, outcome) ==
    IF outcome.t = "throw" THEN outcome
    ELSE IF ~(outcome.status >= 200 /\ outcome.status <= 299)
    THEN Throw("Content download failed for " \o String(name) \o " HTTP "
               \o NumToString(outcome.status))
    ELSE IF name.t # "str" THEN TypeError(NotAFunction("name.toLowerCase"))
    ELSE IF EndsWith(ToLowerCase(name.s), ".txt")
    THEN [t |-> "value", v |-> outcome.body.text]
    ELSE IF mime.t # "str" THEN TypeError(NotAFunction("mime.startsWith"))
    ELSE IF StartsWith(mime.s, "text/")
    THEN [t |-> "value", v |-> outcome.body.text]
    ELSE IF EndsWith(ToLowerCase(name.s), ".docx") \/ mime.s = DocxMime
    THEN DocxText(outcome.body)
    ELSE [t |-> "value", v |-> ""]

\* readFileContent(token, driveId, itemMeta) after fetchBinary settled
ReadFileContent(itemMeta, outcome) ==
    ReadAs(OrElse(Get(itemMeta, "name"), Str("")),
           OrElse(Get(Get(itemMeta, "file"), "mimeType"), Str("")),
           outcome)

\* filesFound.push({ name, pathTried, id, size: meta.size || null })
FoundEntry(meta, p) ==
    [name |-> Get(meta, "name"), pathTried |-> p, id |-> Get(meta, "id"),
     size |-> OrElse(Get(meta, "size"), Null)]

\* combinedText += `\n\n===== ${meta.name} =====\n` + content.trim(), when
\* the content has usable text
AppendText(combinedText, meta, content) ==
    IF Trim(content) # ""
    THEN combinedText \o "\n\n===== " \o String(Get(meta, "name")) \o " =====\n"
         \o Trim(content)
    ELSE combinedText

\* a === b for two values that were parsed from two replies: equal
\* primitives; an array or an object is never the same object as another
StrictEquals(a, b) == a.t \notin {"arr", "obj"} /\ a = b

\* filesFound.find(x => x.id === meta.id)
Already(filesFound, meta) ==
    \E k \in 1..Len(filesFound) : StrictEquals(filesFound[k].id, Get(meta, "id"))

\* The endpoint's response on the wire: its payload as JSON
SignalsWire(resp) ==
    HttpReply(resp.status,
              JsonBody("{\"source\":\"SharePoint\",...}",
                       Obj([source      |-> Str(resp.body.source),
                            ok          |-> Bool(resp.body.ok),
                            error       |-> resp.body.error,
                            filesFound  |-> Arr(resp.body.filesFound),
                            signalsText |-> Str(resp.body.signalsText)])))

\* getSharePointSignals (src/unnamed/part_002) after its fetchJson settled:
\* the promise rejects with the fetch, a reply that is not JSON (or is a
\* falsy JSON value) is reported as such, and ok is !!payload.ok
GetSharePointSignals(outcome) ==
    LET f == FetchJson(outcome) IN
    IF f.t = "throw" THEN Rejected(f)
    ELSE LET payload == OrElse(f.r.json,
                               Obj([ok    |-> Bool(FALSE),
                                    error |-> Str("SharePoint signals returned non-JSON")]))
             ok == Truthy(Get(payload, "ok"))
         IN  Returned(SourceResult("SharePoint", ok,
                                   IF ok THEN Null
                                   ELSE OrElse(Get(payload, "error"), Str("NO_MATCH")),
                                   payload))

\* ---- inputs ----
SignalsEnvs == {MsKeys} \cup {MsKeys \ {k} : k \in MsKeys}

SignalsRequests ==
    [method : Methods, body : {Undefined, Obj([question |-> Str(Question)])}]

TokenOutcomes ==
    { TypeError(ConnectionError),
      HttpReply(401, JsonBody("{\"error\":\"invalid_client\"}",
                              Obj([error |-> Str("invalid_client")]))),
      HttpReply(200, JsonBody("{}", EmptyObject)),
      HttpReply(200, JsonBody("{\"access_token\":\"eyJ0\"}",
                              Obj([access_token |-> Str("eyJ0")]))) }

Listing(items) == JsonBody("{\"value\":[...]}", Obj([value |-> Arr(items)]))
Named(id, name) == Obj([id |-> Str(id), name |-> Str(name)])

SiteOutcomes ==
    { ThrowOf("AbortError", AbortError),
      HttpReply(403, ErrorJson),
      HttpReply(200, HtmlBody),
      HttpReply(200, Listing(<<>>)),
      HttpReply(200, JsonBody("{\"value\":{}}", Obj([value |-> EmptyObject]))),
      HttpReply(200, Listing(<<Obj([name |-> Str("Vation GTM")])>>)),
      HttpReply(200, Listing(<<Named("site-9", "Vation Archive"),
                               Named("site-1", "vation gtm")>>)) }

DriveOutcomes ==
    { TypeError(ConnectionError),
      HttpReply(500, ErrorJson),
      HttpReply(200, Listing(<<>>)),
      HttpReply(200, Listing(<<Null>>)),
      HttpReply(200, Listing(<<Named("drive-1", "Documents")>>)) }

\* The drive item a lookup of candidate path i can find: the same item
\* whether reached from the root or from General/
ItemAt(i) ==
    LET n == (i + 1) \div 2 IN
    Obj([id |-> Str("item-" \o ToString(n)), name |-> Str(Targets[n]), size |-> Num(2048)])

\* Items whose fields are not the strings Graph documents: an id that is an
\* array, a name that is a number, a mime type that is a number
OddItems ==
    { Obj([id |-> Arr(<<Str("x")>>), name |-> Str(Targets[1])]),
      Obj([id |-> Str("item-n"), name |-> Num(5)]),
      Obj([id |-> Str("item-m"), name |-> Str("n"), file |-> Obj([mimeType |-> Num(5)])]) }

LookupOutcomes(i) ==
    { TypeError(ConnectionError),
      HttpReply(404, ErrorJson),
      HttpReply(200, JsonBody("{}", EmptyObject)),
      HttpReply(200, JsonBody("{\"id\":...}", ItemAt(i))) }
    \cup (IF i <= 2 THEN {HttpReply(200, JsonBody("{\"id\":...}", m)) : m \in OddItems}
          ELSE {})

ContentOutcomes ==
    { ThrowOf("AbortError", AbortError),
      HttpReply(403, Bytes("", FALSE)),
      HttpReply(200, Bytes("", TRUE)),
      HttpReply(200, Bytes(" \r\n", TRUE)),
      HttpReply(200, Bytes("Lift outage at EBC HQ; renewal at risk.", TRUE)),
      HttpReply(200, Bytes("%PDF-1.7", FALSE)) }

\* The first seeded file can also hold a long document: one that fills the
\* budget of signalsText exactly once its heading is added, and one that
\* exceeds it by a character
FirstHeading == "===== " \o Targets[1] \o " =====\n"

LongDocuments ==
    { HttpReply(200, Bytes(Filler(ClipMax - Len(FirstHeading)), TRUE)),
      HttpReply(200, Bytes(Filler(ClipMax - Len(FirstHeading) + 1), TRUE)) }

ContentOutcomesAt(i) == ContentOutcomes \cup (IF i <= 2 THEN LongDocuments ELSE {})

\* ---- the handler as a state machine ----
SignalsAt(pc, i, filesFound, combinedText, meta) ==
    [pc |-> pc, i |-> i, filesFound |-> filesFound,
     combinedText |-> combinedText, meta |-> meta]

InitSignals ==
    /\ version = "signals"
    /\ env \in SignalsEnvs
    /\ req \in SignalsRequests
    /\ hpc = "recv"
    /\ sn = Pending("idle")
    /\ sf = Pending("idle")
    /\ sp = Pending("idle")
    /\ gem = IdleGemini
    /\ res = NoResponse
    /\ net = NoCalls
    /\ sig = SignalsAt("recv", 0, <<>>, "", Null)
    /\ now = 0
    /\ built = <<>>
    /\ chat = IdleChat

SignalsDone(answer) ==
    /\ res' = answer
    /\ sig' = [sig EXCEPT !.pc = "done"]

\* The method checks, then getGraphToken() up to its fetchJson
SignalsReceive ==
    /\ version = "signals"
    /\ sig.pc = "recv"
    /\ IF req.method = "OPTIONS" THEN SignalsDone([status |-> 200, body |-> Null])
       ELSE IF req.method # "POST"
            THEN SignalsDone([status |-> 405, body |-> [error |-> "POST only"]])
       ELSE IF ~(MsKeys \subseteq env)
            THEN SignalsDone(SignalsCaught(
                     Throw("Missing MS_TENANT_ID / MS_CLIENT_ID / MS_CLIENT_SECRET")))
       ELSE /\ sig' = [sig EXCEPT !.pc = "token"]
            /\ UNCHANGED res
    /\ UNCHANGED <<chat, version, env, req, now, built, hpc, sn, sf, sp, gem, net>>

\* One awaited lookup call settles (token, site or drive)
SignalsStep(pc, result, nextPc) ==
    /\ version = "signals"
    /\ sig.pc = pc
    /\ IF result.t = "throw" THEN SignalsDone(SignalsCaught(result))
       ELSE /\ sig' = [sig EXCEPT !.pc = nextPc, !.i = IF nextPc = "lookup" THEN 1 ELSE 0]
            /\ UNCHANGED res
    /\ UNCHANGED <<chat, version, env, req, now, built, hpc, sn, sf, sp, gem, net>>

TokenReply == \E o \in TokenOutcomes : SignalsStep("token", GetGraphToken(o), "site")
SiteReply  == \E o \in SiteOutcomes : SignalsStep("site", FindSiteId(o), "drive")
DriveReply == \E o \in DriveOutcomes : SignalsStep("drive", FindDriveId(o), "lookup")

\* The loop moves to candidate path i, or past the last one to the answer
SignalsContinue(i, filesFound, combinedText) ==
    IF i > Len(CandidatePaths)
    THEN /\ res' = SignalsAnswer(filesFound, combinedText)
         /\ sig' = SignalsAt("done", i, filesFound, combinedText, Null)
    ELSE /\ sig' = SignalsAt("lookup", i, filesFound, combinedText, Null)
         /\ UNCHANGED res

\* tryGetDriveItemByPath settles for candidate path sig.i
LookupReply ==
    /\ version = "signals"
    /\ sig.pc = "lookup"
    /\ \E o \in LookupOutcomes(sig.i) :
          LET hit == TryGetDriveItemByPath(o) IN
          IF hit.t = "throw" THEN SignalsDone(SignalsCaught(hit))
          ELSE IF ~hit.ok \/ Already(sig.filesFound, hit.meta)
               THEN SignalsContinue(sig.i + 1, sig.filesFound, sig.combinedText)
          ELSE /\ sig' = [sig EXCEPT !.pc = "content", !.meta = hit.meta]
               /\ UNCHANGED res
    /\ UNCHANGED <<chat, version, env, req, now, built, hpc, sn, sf, sp, gem, net>>

\* readFileContent settles for the item just found
ContentReply ==
    /\ version = "signals"
    /\ sig.pc = "content"
    /\ \E o \in ContentOutcomesAt(sig.i) :
          LET content == ReadFileContent(sig.meta, o) IN
          IF content.t = "throw" THEN SignalsDone(SignalsCaught(content))
          ELSE SignalsContinue(sig.i + 1,
                               Append(sig.filesFound,
                                      FoundEntry(sig.meta, CandidatePaths[sig.i])),
                               AppendText(sig.combinedText, sig.meta, content.v))
    /\ UNCHANGED <<chat, version, env, req, now, built, hpc, sn, sf, sp, gem, net>>

NextSignals ==
    \/ SignalsReceive
    \/ TokenReply
    \/ SiteReply
    \/ DriveReply
    \/ LookupReply
    \/ ContentReply

SpecSignals == InitSignals /\ [][NextSignals]_vars

(***************************************************************************)
(* The handlers of src/api/chat-sp.js as state machines.  The file holds   *)
(* three successive versions of the endpoint:                              *)
(*   "chat-sp"          lines 1-362, summarises the top supported files;   *)
(*   "chat-sp-query"    lines 364-567, a Graph search/query, then Gemini;  *)
(*   "chat-sp-rewrite"  lines 569-942, summarises the first allowed file.  *)
(* Each awaits one call at a time: the Graph token, then (but for the      *)
(* search/query version) the site and the drive list, the search, a        *)
(* download per file used, and the Gemini summary.  A search result, an    *)
(* extracted file and an answer are JSON values; a property that           *)
(* res.json would leave out is Undefined here.                             *)
(***************************************************************************)
ChatVersions == {"chat-sp", "chat-sp-query", "chat-sp-rewrite"}

GraphKeys == {"GRAPH_TENANT_ID", "GRAPH_CLIENT_ID", "GRAPH_CLIENT_SECRET"}

TopFiles == 3

\* resp.ok
StatusOk(status) == status >= 200 /\ status <= 299

\* The characters a JSON text can start with
JsonStart ==
    {"{", "[", "\"", "-", "0", "1", "2", "3", "4", "5", "6", "7", "8", "9",
     "t", "f", "n", " ", "\t", "\n", "\r"}

\* The message of the SyntaxError of JSON.parse (V8 of Node 20 and later) for
\* an empty text and for a text whose first character starts no JSON value:
\* the character, then the text when shorter than 21 characters, else its
\* first 10 characters.  A text that fails further on is not modelled.
JsonSyntaxError(text) ==
    IF text = "" THEN "Unexpected end of JSON input"
    ELSE IF SubSeq(text, 1, 1) \in JsonStart THEN NotModelled
    ELSE "Unexpected token '" \o SubSeq(text, 1, 1) \o "', \""
         \o (IF Len(text) < 21 THEN text \o "\"" ELSE SubSeq(text, 1, 10) \o "\"...")
         \o " is not valid JSON"

\* await resp.json()
ResponseJson(body) ==
    IF body.valid THEN Resolve(body.json)
    ELSE ThrowOf("SyntaxError", JsonSyntaxError(body.text))

\* data.k: reading a property of null or undefined throws
Reading(data, k) ==
    IF IsNullish(data) THEN TypeError(TypeErrorReading(data, k))
    ELSE Resolve(Get(data, k))

\* a && b
AndThen(a, b) == IF Truthy(a) THEN b ELSE a

\* ---- the messages of each version ----
KeysNotSet == "GRAPH_TENANT_ID / GRAPH_CLIENT_ID / GRAPH_CLIENT_SECRET are not set"

TokenFailure(v) ==
    IF v = "chat-sp-rewrite" THEN "Failed to get Graph token"
    ELSE "Failed to get Graph access token"

SiteFailure(v) ==
    IF v = "chat-sp-rewrite" THEN "Failed to get site ID"
    ELSE "Failed to get VationGTM SharePoint site from Graph"

DrivesFailure(v) ==
    IF v = "chat-sp-rewrite" THEN "Failed to get drives"
    ELSE "Failed to get drives for VationGTM site"

\* The variable that holds the drive list, as the TypeError names it
DrivesData(v) == IF v = "chat-sp-rewrite" THEN "driveData" ELSE "drivesData"

SearchNonJson(v) ==
    IF v = "chat-sp-rewrite" THEN "Search returned non-JSON"
    ELSE "Drive search returned non-JSON response"

SearchFailure(v) ==
    IF v = "chat-sp-rewrite" THEN "Graph search error" ELSE "Drive search API error"

DownloadFailure(v) ==
    IF v = "chat-sp-rewrite" THEN "Failed downloading file"
    ELSE "Failed to download file content from Graph"

GeminiNonJson(v) ==
    IF v = "chat-sp-query" THEN "Gemini returned a non-JSON response"
    ELSE "Gemini returned non-JSON"

MethodError(v) ==
    IF v = "chat-sp-rewrite" THEN "Use POST"
    ELSE "Use POST with JSON body { \"question\": \"...\" }"

MissingQuestion(v) ==
    IF v = "chat-sp-rewrite" THEN "Missing question"
    ELSE "Missing \"question\" in request body."

NoSummary(v) ==
    CASE v = "chat-sp"       -> "I couldn't generate a summary."
      [] v = "chat-sp-query" -> "I was not able to generate a proper response."
      [] OTHER               -> "No content"

\* ---- getGraphToken, getSiteAndDriveIds ----
\* getGraphToken() of chat-sp.js after its fetch settled
ChatGraphToken(v, outcome) ==
    IF outcome.t = "throw" THEN outcome
    ELSE IF ~outcome.body.valid THEN ResponseJson(outcome.body)
    ELSE IF ~StatusOk(outcome.status) THEN Throw(TokenFailure(v))
    ELSE Reading(outcome.body.json, "access_token")

\* getSiteAndDriveIds up to siteId, after the site fetch settled
GetSiteId(v, outcome) ==
    IF outcome.t = "throw" THEN outcome
    ELSE IF ~outcome.body.valid THEN ResponseJson(outcome.body)
    ELSE IF ~StatusOk(outcome.status) THEN Throw(SiteFailure(v))
    ELSE Reading(outcome.body.json, "id")

RECURSIVE FindWhere(_, _, _)
\* items.find((d) => d[k] === wanted): the first such element, or undefined;
\* a null element met on the way throws
FindWhere(items, k, wanted) ==
    IF items = <<>> THEN Resolve(Undefined)
    ELSE IF IsNullish(items[1]) THEN TypeError(TypeErrorReading(items[1], k))
    ELSE IF Get(items[1], k) = Str(wanted) THEN Resolve(items[1])
    ELSE FindWhere(Tail(items), k, wanted)

\* ... || value.find((d) => d.driveType === "documentLibrary") || value[0]
DriveByType(items, byType) ==
    IF byType.t = "throw" THEN byType
    ELSE IF Truthy(byType.v) THEN byType
    ELSE Resolve(FirstOf(Arr(items)))

\* value.find((d) => d.name === "Documents") || ...
DriveByName(items, byName) ==
    IF byName.t = "throw" THEN byName
    ELSE IF Truthy(byName.v) THEN byName
    ELSE DriveByType(items, FindWhere(items, "driveType", "documentLibrary"))

\* docsDrive.id
DriveIdOf(drive) == IF drive.t = "throw" THEN drive ELSE Reading(drive.v, "id")

\* drivesData.value.find(...): value must be an array
DocsDriveId(v, value) ==
    IF IsNullish(value) THEN TypeError(TypeErrorReading(value, "find"))
    ELSE IF value.t # "arr" THEN TypeError(NotAFunction(DrivesData(v) \o ".value.find"))
    ELSE DriveIdOf(DriveByName(value.items, FindWhere(value.items, "name", "Documents")))

\* getSiteAndDriveIds from the drives fetch on: the driveId it returns
GetDriveId(v, outcome) ==
    IF outcome.t = "throw" THEN outcome
    ELSE IF ~outcome.body.valid THEN ResponseJson(outcome.body)
    ELSE IF ~StatusOk(outcome.status) THEN Throw(DrivesFailure(v))
    ELSE IF IsNullish(outcome.body.json)
    THEN TypeError(TypeErrorReading(outcome.body.json, "value"))
    ELSE DocsDriveId(v, Get(outcome.body.json, "value"))

\* ---- the search of each version ----
\* results.push({ id, driveId, name, webUrl, lastModified, kind }) of searchFiles
SearchHit(item, driveId) ==
    Obj([id           |-> OrElse(Get(item, "id"), Str("")),
         driveId      |-> OrElse(Get(OrElse(Get(item, "parentReference"), EmptyObject),
                                     "driveId"), driveId),
         name         |-> OrElse(Get(item, "name"), Str("")),
         webUrl       |-> OrElse(Get(item, "webUrl"), Str("")),
         lastModified |-> OrElse(Get(item, "lastModifiedDateTime"), Str("")),
         kind         |-> Str(IF Truthy(Get(item, "file")) THEN "file" ELSE "other")])

\* the object data.value?.map builds for an item in searchFileInDrive
DriveHit(item, driveId) ==
    Obj([id           |-> Get(item, "id"),
         driveId      |-> OrElse(Get(Get(item, "parentReference"), "driveId"), driveId),
         name         |-> Get(item, "name"),
         webUrl       |-> Get(item, "webUrl"),
         lastModified |-> Get(item, "lastModifiedDateTime")])

\* results.push({ name, webUrl, summary, lastModified, driveType }) of searchSharePoint
QueryHit(resource) ==
    Obj([name         |-> OrElse(OrElse(Get(resource, "name"), Get(resource, "title")), Str("")),
         webUrl       |-> OrElse(Get(resource, "webUrl"), Str("")),
         summary      |-> OrElse(OrElse(Get(resource, "description"),
                                        Get(resource, "snippet")), Str("")),
         lastModified |-> OrElse(Get(resource, "lastModifiedDateTime"), Str("")),
         driveType    |-> OrElse(Get(resource, "driveType"), Str(""))])

\* searchFiles: the loop over data.value when it is an array
SearchFilesHits(value, driveId) ==
    IF value.t # "arr" THEN Resolve(<<>>)
    ELSE IF \E i \in 1..Len(value.items) : IsNullish(value.items[i])
    THEN TypeError(TypeErrorReading(Null, "parentReference"))
    ELSE Resolve([i \in 1..Len(value.items) |-> SearchHit(value.items[i], driveId)])

\* searchFileInDrive: data.value?.map(...) || []
SearchFileInDriveHits(value, driveId) ==
    IF IsNullish(value) THEN Resolve(<<>>)
    ELSE IF value.t # "arr" THEN TypeError(NotAFunction("data.value?.map"))
    ELSE IF \E i \in 1..Len(value.items) : IsNullish(value.items[i])
    THEN TypeError(TypeErrorReading(Null, "id"))
    ELSE Resolve([i \in 1..Len(value.items) |-> DriveHit(value.items[i], driveId)])

\* searchFiles and searchFileInDrive after the search fetch settled
DriveSearch(v, driveId, outcome) ==
    IF outcome.t = "throw" THEN outcome
    ELSE IF ~outcome.body.valid THEN Throw(SearchNonJson(v))
    ELSE IF ~StatusOk(outcome.status) THEN Throw(SearchFailure(v))
    ELSE IF IsNullish(outcome.body.json)
    THEN TypeError(TypeErrorReading(outcome.body.json, "value"))
    ELSE IF v = "chat-sp-rewrite"
    THEN SearchFileInDriveHits(Get(outcome.body.json, "value"), driveId)
    ELSE SearchFilesHits(Get(outcome.body.json, "value"), driveId)

\* container && container.hits
HitsOf(container) == AndThen(container, Get(container, "hits"))

\* hitsContainers && hitsContainers[0] && hitsContainers[0].hits
FirstHits(hitsContainers) == AndThen(hitsContainers, HitsOf(FirstOf(hitsContainers)))

\* first && first.hitsContainers && ...
HitsContainers(first) == AndThen(first, FirstHits(Get(first, "hitsContainers")))

\* data.value && data.value[0] && data.value[0].hitsContainers && ... .hits
Containers(value) == AndThen(value, HitsContainers(FirstOf(value)))

\* searchSharePoint: the loop over the hits when they are an array
QueryHits(containers) ==
    IF containers.t # "arr" THEN Resolve(<<>>)
    ELSE IF \E i \in 1..Len(containers.items) : IsNullish(containers.items[i])
    THEN TypeError(TypeErrorReading(Null, "resource"))
    ELSE Resolve([i \in 1..Len(containers.items) |->
                     QueryHit(OrElse(Get(containers.items[i], "resource"), EmptyObject))])

\* searchSharePoint after its fetch settled
SearchSharePoint(outcome) ==
    IF outcome.t = "throw" THEN outcome
    ELSE IF ~outcome.body.valid THEN ResponseJson(outcome.body)
    ELSE IF ~StatusOk(outcome.status) THEN Throw("Graph search API error")
    ELSE IF IsNullish(outcome.body.json)
    THEN TypeError(TypeErrorReading(outcome.body.json, "value"))
    ELSE QueryHits(Containers(Get(outcome.body.json, "value")))

\* ---- extensions of the results ----
\* getExtension(r.name) for the name of a search hit of searchFiles, which is
\* a string or another truthy value: only a string has split
GetExtensionOf(name) ==
    IF name.t = "str" THEN Resolve(GetExtension(name.s))
    ELSE TypeError(NotAFunction("name.split"))

\* getExt(r.name): the default "" stands for a missing name
GetExtOf(name) ==
    CASE name.t = "undefined" -> Resolve(GetExt(""))
      [] name.t = "null"      -> TypeError(TypeErrorReading(name, "split"))
      [] name.t = "str"       -> Resolve(GetExt(name.s))
      [] OTHER                -> TypeError(NotAFunction("name.split"))

\* results.filter((r) => isSupportedExtension(getExtension(r.name))).slice(0, 3)
Supported(results) ==
    IF \E i \in 1..Len(results) : Get(results[i], "name").t # "str"
    THEN TypeError(NotAFunction("name.split"))
    ELSE Resolve(Slice0(Filter(results,
                     [r \in {results[i] : i \in 1..Len(results)} |->
                         GetExtension(Get(r, "name").s) \in SupportedExtensions]),
                        TopFiles))

RECURSIVE FirstAllowed(_)
\* results.find((r) => isAllowed(getExt(r.name)))
FirstAllowed(results) ==
    IF results = <<>> THEN Resolve(Undefined)
    ELSE IF GetExtOf(Get(results[1], "name")).t = "throw"
    THEN GetExtOf(Get(results[1], "name"))
    ELSE IF GetExtOf(Get(results[1], "name")).v \in SupportedExtensions
    THEN Resolve(results[1])
    ELSE FirstAllowed(Tail(results))

\* ---- download and extraction ----
\* downloadFileBuffer, downloadFile after the fetch settled: the bytes
DownloadFile(v, outcome) ==
    IF outcome.t = "throw" THEN outcome
    ELSE IF ~StatusOk(outcome.status) THEN Throw(DownloadFailure(v))
    ELSE Resolve(outcome.body)

\* What a content download of the chat handlers delivers: the text its bytes
\* decode to, whether mammoth can open them, and what XLSX.read finds in them:
\* the sheets of a workbook, or the error it throws.
FileBytes(text, docx, book) == [text |-> text, docx |-> docx, book |-> book]

\* A worksheet: its rows from the first to the last used one, each row its
\* cells up to the last used one; an unused cell is undefined, an unused row
\* has no cells.
Sheet(rows) == [t |-> "sheet", rows |-> rows]

\* XLSX.utils.sheet_to_json(sheet, { header: 1, blankrows }): one array per
\* row; unused rows are left out when blankrows is false
SheetToJson(sheet, blankrows) ==
    IF sheet.t # "sheet" THEN <<>>
    ELSE IF blankrows THEN sheet.rows
    ELSE Filter(sheet.rows, [r \in {sheet.rows[i] : i \in 1..Len(sheet.rows)} |-> r # <<>>])

\* cells.join(" | ") of a row after (c == null ? "" : String(c)) in the first
\* handler, (c ? String(c) : "") in the rewrite
RowCells(v, row) ==
    [i \in 1..Len(row) |->
        IF v = "chat-sp"
        THEN (IF IsNullish(row[i]) THEN "" ELSE String(row[i]))
        ELSE (IF Truthy(row[i]) THEN String(row[i]) ELSE "")]

\* The lines one sheet contributes: the first handler skips a missing sheet,
\* asks for no blank rows, trims each line and drops the empty ones; the
\* rewrite keeps every row sheet_to_json gives, blank ones included
SheetLines(v, sheet) ==
    IF v = "chat-sp"
    THEN IF ~Truthy(sheet) THEN <<>>
         ELSE LET lines == [i \in 1..Len(SheetToJson(sheet, FALSE)) |->
                               Trim(JoinWith(RowCells(v, SheetToJson(sheet, FALSE)[i]), " | "))]
              IN  Filter(lines, [l \in {lines[i] : i \in 1..Len(lines)} |-> l # ""])
    ELSE [i \in 1..Len(SheetToJson(sheet, TRUE)) |->
             JoinWith(RowCells(v, SheetToJson(sheet, TRUE)[i]), " | ")]

RECURSIVE BookLines(_, _)
\* workbook.SheetNames.forEach(...): the lines of the sheets in their order
BookLines(v, sheets) ==
    IF sheets = <<>> THEN <<>>
    ELSE SheetLines(v, Head(sheets)) \o BookLines(v, Tail(sheets))

\* extractTextFromBuffer (v = "chat-sp"), extractText (the rewrite): the bytes
\* as text for txt and csv; mammoth's value || "" for a docx; the lines of the
\* workbook joined with "\n" for an xlsx; "" when the library throws and for
\* any other extension
ExtractText(v, bytes, ext) ==
    IF ext \in {"txt", "csv"} THEN bytes.text
    ELSE IF ext = "docx" THEN (IF bytes.docx THEN bytes.text ELSE "")
    ELSE IF ext = "xlsx"
    THEN (IF bytes.book.t = "throw" THEN "" ELSE JoinWith(BookLines(v, bytes.book.v), "\n"))
    ELSE ""

\* extracted.push({ fileName, extractedText, webUrl, lastModified, extension })
ExtractedFile(v, f, ext, bytes) ==
    Obj([fileName      |-> Get(f, "name"),
         extractedText |-> Str(ExtractText(v, bytes, ext)),
         webUrl        |-> Get(f, "webUrl"),
         lastModified  |-> Get(f, "lastModified"),
         extension     |-> Str(ext)])

\* extracted.map((f) => ({ name, webUrl, extension, lastModified }))
UsedFiles(extracted) ==
    [i \in 1..Len(extracted) |->
        Obj([name         |-> Get(extracted[i], "fileName"),
             webUrl       |-> Get(extracted[i], "webUrl"),
             extension    |-> Get(extracted[i], "extension"),
             lastModified |-> Get(extracted[i], "lastModified")])]

\* ---- the Gemini call of each version ----
\* data?.candidates?.[0]?.content?.parts?.[0]?.text
FirstPartText(data) ==
    Get(FirstOf(Get(Get(FirstOf(Get(data, "candidates")), "content"), "parts")), "text")

\* throw new Error(`Gemini error (${code}): ${msg}`) of callGeminiSummary
GeminiError(data, status) ==
    "Gemini error ("
    \o String(OrElse(Get(Get(data, "error"), "code"), Num(status))) \o "): "
    \o String(OrElse(Get(Get(data, "error"), "message"), Str("Gemini API error")))

\* callGeminiSummary of lines 29-84 after its fetch settled
CallGeminiSummary(outcome) ==
    IF outcome.t = "throw" THEN outcome
    ELSE IF ~outcome.body.valid THEN Throw(GeminiNonJson("chat-sp"))
    ELSE IF ~StatusOk(outcome.status)
    THEN Throw(GeminiError(outcome.body.json, outcome.status))
    ELSE Resolve(OrElse(FirstPartText(outcome.body.json), Str("")))

\* callGemini of lines 378-415: its chain of && stops at the first falsy
\* value, as the ?. chain gives undefined there, but data.candidates is read
\* as it is
CallGemini(outcome) ==
    IF outcome.t = "throw" THEN outcome
    ELSE IF ~outcome.body.valid THEN Throw(GeminiNonJson("chat-sp-query"))
    ELSE IF ~StatusOk(outcome.status) THEN Throw("Gemini API error")
    ELSE IF IsNullish(outcome.body.json)
    THEN TypeError(TypeErrorReading(outcome.body.json, "candidates"))
    ELSE Resolve(OrElse(FirstPartText(outcome.body.json), Str(NoSummary("chat-sp-query"))))

\* callGeminiSummary of lines 593-651
CallGeminiSummary_Rewrite(outcome) ==
    IF outcome.t = "throw" THEN outcome
    ELSE IF ~outcome.body.valid THEN Throw(GeminiNonJson("chat-sp-rewrite"))
    ELSE IF ~StatusOk(outcome.status) THEN Throw("Gemini API error")
    ELSE Resolve(OrElse(FirstPartText(outcome.body.json), Str(NoSummary("chat-sp-rewrite"))))

\* The summary call of version v
Summarise(v, outcome) ==
    CASE v = "chat-sp"       -> CallGeminiSummary(outcome)
      [] v = "chat-sp-query" -> CallGemini(outcome)
      [] OTHER               -> CallGeminiSummary_Rewrite(outcome)

\* ---- responses ----
\* res.status(200).json({ answer, usedFiles, candidateFiles })
ChatAnswer(answer, usedFiles, candidateFiles) ==
    [status |-> 200,
     body   |-> [answer |-> answer, usedFiles |-> usedFiles,
                 candidateFiles |-> candidateFiles]]

\* res.status(200).json({ answer, source: 'sharepoint', sharePointResults })
QueryAnswer(answer, spResults) ==
    [status |-> 200,
     body   |-> [answer |-> answer, source |-> "sharepoint",
                 sharePointResults |-> spResults]]

\* res.status(200).json({ answer, sharePointResults })
ResultsAnswer(answer, results) ==
    [status |-> 200, body |-> [answer |-> answer, sharePointResults |-> results]]

\* res.status(200).json({ answer, chosenFile: file })
UnreadableFile(file) ==
    [status |-> 200, body |-> [answer |-> Str(UnreadableAnswer), chosenFile |-> file]]

\* res.status(200).json({ answer: summary, chosenFile: file, sharePointResults })
FileAnswer(summary, file, results) ==
    [status |-> 200,
     body   |-> [answer |-> summary, chosenFile |-> file, sharePointResults |-> results]]

\* The catch of each handler: details is String(err) where there are details
ChatFailure(v, e) ==
    CASE v = "chat-sp" ->
           [status |-> 500,
            body   |-> [error   |-> "Internal server error in SharePoint assistant. Please check logs or configuration.",
                        details |-> ErrorToString(e)]]
      [] v = "chat-sp-query" ->
           [status |-> 500,
            body   |-> [error   |-> "Internal error in /api/chat-sp.",
                        details |-> ErrorToString(e)]]
      [] OTHER ->
           [status |-> 500, body |-> [error |-> "Internal server error"]]

\* const { question } = req.body || {}
ChatQuestion(body) == IF body.t = "obj" THEN Get(body, "question") ELSE Undefined

\* The question test: !question || typeof question !== "string", and only
\* !question in the rewrite
QuestionAccepted(v, q) ==
    IF v = "chat-sp-rewrite" THEN Truthy(q) ELSE ValidQuestion(q)

\* ---- inputs ----
ChatEnvs == {GraphKeys \cup {"GEMINI_API_KEY"}, GraphKeys, {"GEMINI_API_KEY"}}

ChatRequests ==
    [method : Methods,
     body : {Undefined, Obj([question |-> Str(Question)]), Obj([question |-> Num(5)]),
             Raw(JsonBody("{\"question\":\"What needs leadership attention today?\"}",
                          Obj([question |-> Str(Question)])))}]

NullJson == JsonBody("null", Null)

ChatTransport ==
    {TypeError(ConnectionError), HttpReply(200, TextBody("")), HttpReply(502, HtmlBody),
     HttpReply(200, NullJson)}

ChatTokenOutcomes ==
    ChatTransport
    \cup {HttpReply(200, JsonBody("{\"access_token\":\"tok\"}",
                                  Obj([access_token |-> Str("tok")]))),
          HttpReply(401, JsonBody("{\"error\":\"invalid_client\"}",
                                  Obj([error |-> Str("invalid_client")])))}

ChatSiteOutcomes ==
    ChatTransport
    \cup {HttpReply(200, JsonBody("{\"id\":\"site-1\"}", Obj([id |-> Str("site-1")]))),
          HttpReply(404, ErrorJson)}

Drive(name, type, id) ==
    Obj([name |-> Str(name), driveType |-> Str(type), id |-> Str(id)])

DriveLists ==
    { <<Drive("Archive", "documentLibrary", "drive-2"),
        Drive("Documents", "documentLibrary", "drive-1")>>,
      <<Drive("Pages", "business", "drive-3"),
        Drive("Shared", "documentLibrary", "drive-2")>>,
      <<Drive("Pages", "business", "drive-3")>>,
      <<Obj([name |-> Str("Pages")])>>,
      <<>>,
      <<Null, Drive("Documents", "documentLibrary", "drive-1")>> }

ChatDrivesOutcomes ==
    ChatTransport
    \cup {HttpReply(200, JsonBody("{\"value\":[...]}", Obj([value |-> Arr(l)]))) :
             l \in DriveLists}
    \cup {HttpReply(200, JsonBody("{}", EmptyObject)),
          HttpReply(200, JsonBody("{\"value\":\"none\"}", Obj([value |-> Str("none")]))),
          HttpReply(500, ErrorJson)}

DriveItem(name) ==
    Obj([id |-> Str("id-" \o name), name |-> Str(name),
         webUrl |-> Str("https://vationbangalore.sharepoint.com/sites/VationGTM/" \o name),
         lastModifiedDateTime |-> Str("2026-01-10T09:00:00Z"),
         file |-> EmptyObject])

SearchResults ==
    FoundFiles
    \cup { <<"Board_Deck.pdf", "Notes.txt", "EBC_Account_Health_Risk.DOCX", "Ops.csv">>,
           <<"Notes.txt", "photo.png", "Plan.xlsx", "Ops.csv", "Late.docx">>,
           <<"Plan.xlsx", "Notes.txt">> }

OddDriveItems ==
    { <<Null>>,
      <<Obj([id |-> Str("id-5"), name |-> Num(5)])>>,
      <<DriveItem("Notes.txt"),
        Obj([name |-> Null, parentReference |-> Obj([driveId |-> Str("drive-9")])])>>,
      <<Obj([id |-> Str("id-0"), name |-> Null]), DriveItem("Notes.txt")>>,
      <<Obj([id |-> Str("id-0")]), DriveItem("Plan.xlsx")>> }

DriveSearchOutcomes ==
    {TypeError(ConnectionError), HttpReply(200, HtmlBody), HttpReply(503, HtmlBody),
     HttpReply(500, ErrorJson), HttpReply(200, NullJson),
     HttpReply(200, JsonBody("{}", EmptyObject)),
     HttpReply(200, JsonBody("{\"value\":\"none\"}", Obj([value |-> Str("none")])))}
    \cup {HttpReply(200, JsonBody("{\"value\":[...]}",
                                  Obj([value |-> Arr([i \in 1..Len(l) |-> DriveItem(l[i])])]))) :
             l \in SearchResults}
    \cup {HttpReply(200, JsonBody("{\"value\":[...]}", Obj([value |-> Arr(l)]))) :
             l \in OddDriveItems}

QueryReply(hits) ==
    HttpReply(200, JsonBody("{\"value\":[{\"hitsContainers\":[...]}]}",
        Obj([value |-> Arr(<<Obj([hitsContainers |->
                                     Arr(<<Obj([hits |-> Arr(hits)])>>)])>>)])))

HitLists ==
    { <<>>,
      <<Obj([resource |-> Obj([name |-> Str("EBC_Account_Health_Risk.docx"),
                               webUrl |-> Str("https://vationbangalore.sharepoint.com/sites/VationGTM/EBC_Account_Health_Risk.docx"),
                               lastModifiedDateTime |-> Str("2026-01-10T09:00:00Z")])]),
        Obj([resource |-> Obj([title |-> Str("Weekly operations"),
                               snippet |-> Str("Lift outage at EBC HQ")])])>>,
      <<EmptyObject>>,
      <<Null>> }

QuerySearchOutcomes ==
    ChatTransport
    \cup {QueryReply(h) : h \in HitLists}
    \cup {HttpReply(200, JsonBody("{}", EmptyObject)),
          HttpReply(200, JsonBody("{\"value\":[]}", Obj([value |-> Arr(<<>>)]))),
          HttpReply(200, JsonBody("{\"value\":[{}]}", Obj([value |-> Arr(<<EmptyObject>>)]))),
          HttpReply(500, ErrorJson)}

SearchOutcomes(v) ==
    IF v = "chat-sp-query" THEN QuerySearchOutcomes ELSE DriveSearchOutcomes

\* A workbook with an unused row, an unused cell, a zero and a missing
\* second sheet
Workbook ==
    <<Sheet(<< <<Str("Site"), Str("Open P1")>>,
               <<>>,
               <<Str("EBC HQ"), Undefined, Num(0)>> >>),
      Undefined>>

\* What XLSX.read makes of plain text: one sheet, the text of a line in one
\* cell
TextBook(line) == Resolve(<<Sheet(<< <<Str(line)>> >>)>>)

XlsxError == "Unsupported file"

\* Downloads: a failed call, an error status, plain text that is blank or
\* not (which mammoth may or may not accept), a workbook, and bytes no
\* library reads
DownloadOutcomes ==
    {TypeError(ConnectionError), HttpReply(404, FileBytes("", FALSE, Throw(XlsxError)))}
    \cup {HttpReply(200, FileBytes(" \n", d, TextBook(" "))) : d \in BOOLEAN}
    \cup {HttpReply(200, FileBytes("Lift outage at EBC HQ since Monday.", d,
                                   TextBook("Lift outage at EBC HQ since Monday."))) :
             d \in BOOLEAN}
    \cup {HttpReply(200, FileBytes("PK", FALSE, Resolve(Workbook))),
          HttpReply(200, FileBytes("%PDF-1.7", FALSE, Throw(XlsxError)))}

SummaryReply(text) ==
    HttpReply(200, JsonBody("{\"candidates\":[...]}",
        Obj([candidates |-> Arr(<<Obj([content |->
                                Obj([parts |-> Arr(<<Obj([text |-> text])>>)])])>>)])))

SummaryOutcomes ==
    {SummaryReply(Str(t)) : t \in Summaries}
    \cup {SummaryReply(Arr(<<>>)),
          TypeError(ConnectionError), HttpReply(200, HtmlBody), HttpReply(200, NullJson),
          HttpReply(200, JsonBody("{}", EmptyObject)),
          HttpReply(500, ErrorJson),
          HttpReply(429, JsonBody("{\"error\":{...}}",
              Obj([error |-> Obj([code |-> Num(429),
                                  message |-> Str("Resource exhausted")])])))}

\* ---- the handlers as a state machine ----
InitChat ==
    /\ version \in ChatVersions
    /\ env \in ChatEnvs
    /\ req \in ChatRequests
    /\ hpc = "recv"
    /\ sn = Pending("idle")
    /\ sf = Pending("idle")
    /\ sp = Pending("idle")
    /\ gem = IdleGemini
    /\ res = NoResponse
    /\ net = NoCalls
    /\ sig = IdleSignals
    /\ chat = [IdleChat EXCEPT !.pc = "recv"]
    /\ now = 0
    /\ built = <<>>

ChatDone(answer) ==
    /\ res' = answer
    /\ chat' = [chat EXCEPT !.pc = "done"]

\* The handler awaits the call of step pc
ChatAwait(pc) ==
    /\ chat' = [chat EXCEPT !.pc = pc]
    /\ UNCHANGED res

\* The method and question tests, then getGraphToken up to its fetch
ChatReceive ==
    /\ version \in ChatVersions
    /\ chat.pc = "recv"
    /\ IF req.method = "OPTIONS" /\ version # "chat-sp-query"
       THEN ChatDone([status |-> 200, body |-> Null])
       ELSE IF req.method # "POST"
            THEN ChatDone([status |-> 405, body |-> [error |-> MethodError(version)]])
       ELSE IF ~QuestionAccepted(version, ChatQuestion(req.body))
            THEN ChatDone([status |-> 400, body |-> [error |-> MissingQuestion(version)]])
       ELSE IF version # "chat-sp-rewrite" /\ ~(GraphKeys \subseteq env)
            THEN ChatDone(ChatFailure(version, Throw(KeysNotSet)))
       ELSE ChatAwait("token")
    /\ UNCHANGED <<sig, version, env, req, now, built, hpc, sn, sf, sp, gem, net>>

\* After getGraphToken: the search/query, or the site lookup
ChatAfterToken(token) ==
    IF token.t = "throw" THEN ChatDone(ChatFailure(version, token))
    ELSE IF version = "chat-sp-query" THEN ChatAwait("search")
    ELSE ChatAwait("site")

\* The token fetch settles
ChatTokenReply ==
    /\ version \in ChatVersions
    /\ chat.pc = "token"
    /\ \E o \in ChatTokenOutcomes : ChatAfterToken(ChatGraphToken(version, o))
    /\ UNCHANGED <<sig, version, env, req, now, built, hpc, sn, sf, sp, gem, net>>

ChatAfterSite(siteId) ==
    IF siteId.t = "throw" THEN ChatDone(ChatFailure(version, siteId))
    ELSE ChatAwait("drives")

\* The site fetch of getSiteAndDriveIds settles
ChatSiteReply ==
    /\ version \in ChatVersions
    /\ chat.pc = "site"
    /\ \E o \in ChatSiteOutcomes : ChatAfterSite(GetSiteId(version, o))
    /\ UNCHANGED <<sig, version, env, req, now, built, hpc, sn, sf, sp, gem, net>>

\* After getSiteAndDriveIds: the search term is built (buildSearchTerm of the
\* rewrite calls question.trim()), then the search is sent
ChatAfterDrives(driveId, question) ==
    IF driveId.t = "throw" THEN ChatDone(ChatFailure(version, driveId))
    ELSE IF version = "chat-sp-rewrite" /\ question.t # "str"
    THEN ChatDone(ChatFailure(version, TypeError(NotAFunction("question.trim"))))
    ELSE /\ chat' = [chat EXCEPT !.pc = "search", !.driveId = driveId.v]
         /\ UNCHANGED res

\* The drives fetch of getSiteAndDriveIds settles
ChatDrivesReply ==
    /\ version \in ChatVersions
    /\ chat.pc = "drives"
    /\ \E o \in ChatDrivesOutcomes :
          ChatAfterDrives(GetDriveId(version, o), ChatQuestion(req.body))
    /\ UNCHANGED <<sig, version, env, req, now, built, hpc, sn, sf, sp, gem, net>>

\* The top-files handler once the supported results are known
ChatAfterFilter(results, supported) ==
    IF supported.t = "throw" THEN ChatDone(ChatFailure(version, supported))
    ELSE IF Len(supported.v) = 0
    THEN /\ res' = ChatAnswer(Str(UnsupportedAnswer), <<>>, results)
         /\ chat' = [chat EXCEPT !.pc = "done", !.results = results]
    ELSE /\ chat' = [chat EXCEPT !.pc = "download", !.results = results,
                                 !.supported = supported.v, !.i = 1]
         /\ UNCHANGED res

\* The rewrite once results.find has run
ChatAfterFind(results, file) ==
    IF file.t = "throw" THEN ChatDone(ChatFailure(version, file))
    ELSE IF ~Truthy(file.v)
    THEN /\ res' = ResultsAnswer(Str(UnsupportedSingleAnswer), results)
         /\ chat' = [chat EXCEPT !.pc = "done", !.results = results]
    ELSE /\ chat' = [chat EXCEPT !.pc = "download", !.results = results,
                                 !.supported = <<file.v>>, !.i = 1]
         /\ UNCHANGED res

\* After the search: the search/query handler calls Gemini; the others answer
\* when nothing was found, and go on with the files they can read
ChatAfterSearch(results) ==
    IF results.t = "throw" THEN ChatDone(ChatFailure(version, results))
    ELSE IF version = "chat-sp-query"
    THEN /\ chat' = [chat EXCEPT !.pc = "summary", !.results = results.v,
                                 !.llmCalls = @ + 1]
         /\ UNCHANGED res
    ELSE IF Len(results.v) = 0
    THEN ChatDone(IF version = "chat-sp"
                  THEN ChatAnswer(Str(NoFilesAnswer), <<>>, <<>>)
                  ELSE ResultsAnswer(Str(NoFilesSingleAnswer), <<>>))
    ELSE IF version = "chat-sp"
    THEN ChatAfterFilter(results.v, Supported(results.v))
    ELSE ChatAfterFind(results.v, FirstAllowed(results.v))

\* The search fetch settles
ChatSearchReply ==
    /\ version \in ChatVersions
    /\ chat.pc = "search"
    /\ \E o \in SearchOutcomes(version) :
          ChatAfterSearch(IF version = "chat-sp-query" THEN SearchSharePoint(o)
                          ELSE DriveSearch(version, chat.driveId, o))
    /\ UNCHANGED <<sig, version, env, req, now, built, hpc, sn, sf, sp, gem, net>>

\* The top-files handler after a file was read: the next file, the answer
\* without a Gemini key, or callGeminiSummary
ChatAfterExtract(extracted) ==
    IF chat.i < Len(chat.supported)
    THEN /\ chat' = [chat EXCEPT !.i = @ + 1, !.extracted = extracted]
         /\ UNCHANGED res
    ELSE IF "GEMINI_API_KEY" \notin env
    THEN /\ res' = ChatAnswer(Str(NotConfiguredAnswer), UsedFiles(extracted), chat.results)
         /\ chat' = [chat EXCEPT !.pc = "done", !.extracted = extracted]
    ELSE /\ chat' = [chat EXCEPT !.pc = "summary", !.extracted = extracted,
                                 !.llmCalls = @ + 1]
         /\ UNCHANGED res

\* The rewrite after its file was read: if (!text.trim())
ChatAfterExtract_Rewrite(file, extracted) ==
    IF Trim(Get(extracted, "extractedText").s) = ""
    THEN /\ res' = UnreadableFile(file)
         /\ chat' = [chat EXCEPT !.pc = "done", !.extracted = Append(@, extracted)]
    ELSE /\ chat' = [chat EXCEPT !.pc = "summary", !.extracted = Append(@, extracted),
                                 !.llmCalls = @ + 1]
         /\ UNCHANGED res

\* After the download of file f, whose extension a filter has accepted
ChatAfterDownload(f, ext, bytes) ==
    IF bytes.t = "throw" THEN ChatDone(ChatFailure(version, bytes))
    ELSE IF version = "chat-sp"
    THEN ChatAfterExtract(Append(chat.extracted, ExtractedFile(version, f, ext, bytes.v)))
    ELSE ChatAfterExtract_Rewrite(f, ExtractedFile(version, f, ext, bytes.v))

\* The download of supported[i] settles
ChatDownloadReply ==
    /\ version \in ChatVersions
    /\ chat.pc = "download"
    /\ \E o \in DownloadOutcomes :
          ChatAfterDownload(chat.supported[chat.i],
                            IF version = "chat-sp"
                            THEN GetExtension(Get(chat.supported[chat.i], "name").s)
                            ELSE GetExt(Get(chat.supported[chat.i], "name").s),
                            DownloadFile(version, o))
    /\ UNCHANGED <<sig, version, env, req, now, built, hpc, sn, sf, sp, gem, net>>

\* The final answer of each handler
ChatAfterSummary(summary) ==
    IF summary.t = "throw" THEN ChatDone(ChatFailure(version, summary))
    ELSE ChatDone(CASE version = "chat-sp" ->
                         ChatAnswer(OrElse(summary.v, Str(NoSummary(version))),
                                    UsedFiles(chat.extracted), chat.results)
                    [] version = "chat-sp-query" -> QueryAnswer(summary.v, chat.results)
                    [] OTHER -> FileAnswer(summary.v, chat.supported[1], chat.results))

\* The Gemini fetch settles
ChatSummaryReply ==
    /\ version \in ChatVersions
    /\ chat.pc = "summary"
    /\ \E o \in SummaryOutcomes : ChatAfterSummary(Summarise(version, o))
    /\ UNCHANGED <<sig, version, env, req, now, built, hpc, sn, sf, sp, gem, net>>

NextChat ==
    \/ ChatReceive
    \/ ChatTokenReply
    \/ ChatSiteReply
    \/ ChatDrivesReply
    \/ ChatSearchReply
    \/ ChatDownloadReply
    \/ ChatSummaryReply

SpecChat == InitChat /\ [][NextChat]_vars

(***************************************************************************)
(* The risk level in detail: a deployment without the Gemini key, whose    *)
(* ticketing counts and at-risk amounts lie on both sides of each          *)
(* threshold of computeRiskLevel.                                          *)
(***************************************************************************)
RiskCounts == {CombinedP1 - 1, CombinedP1, HighP1 - 1, HighP1}
RiskTotals == {CombinedTotal - 1, CombinedTotal, HighTotal - 1, HighTotal}

RiskSnPayloads ==
    { Obj([totalHighPriority |-> Num(t),
           byPriority |-> Arr(<<PriorityEntry("2", 6), PriorityEntry("1", c)>>)]) :
        t \in RiskTotals, c \in RiskCounts }
    \cup { Obj([totalHighPriority |-> Num(t)]) : t \in RiskTotals }
    \cup { Obj([totalHighPriority |-> Num(CombinedTotal),
                byPriority |-> Arr(<<PriorityEntry("2", 6), Null, PriorityEntry("1", 1)>>)]) }

RiskSnOutcomes ==
    {HttpReply(200, JsonBody("{\"result\":{...}}", Obj([result |-> p]))) : p \in RiskSnPayloads}
    \cup {HttpReply(500, ErrorJson)}

RiskOpp(id, amount) ==
    Obj([Id |-> Str(id), Name |-> Str("Modernisation"), Amount |-> Num(amount),
         StageName |-> Str("Negotiation"), CloseDate |-> Date(2400),
         Probability |-> Num(20)])

RiskOppLists ==
    { <<>>,
      <<RiskOpp("006A", RevenueThreshold - 1)>>,
      <<RiskOpp("006A", RevenueThreshold)>>,
      <<RiskOpp("006A", RevenueThreshold - 90000), RiskOpp("006B", 90000)>> }

RiskOppOutcomes == {QueryResult(l) : l \in RiskOppLists} \cup {Throw("QUERY_TIMEOUT")}

InitRisk ==
    Arrival({"final"}, {EnvKeys \ {"GEMINI_API_KEY"}},
            {[method |-> "POST", body |-> Obj([question |-> Str(Question)])]})

NextRisk ==
    \/ Receive
    \/ ServiceNowReply(RiskSnOutcomes)
    \/ SalesforceLoginReply(LoginOutcomes)
    \/ SalesforceNamedReply(NamedBasicOutcomes)
    \/ SalesforceHotReply(HotBasicOutcomes)
    \/ SalesforceOppReply(RiskOppOutcomes)
    \/ SharePointSeedReply(SpBasicOutcomes)
    \/ SharePointBroadReply(SpBasicOutcomes)

SpecRisk == InitRisk /\ [][NextRisk]_vars

(***************************************************************************)
(* The brief builder from one request to the next: a deployment of the     *)
(* final handler serves a request, and when it has answered, the next one  *)
(* arrives a second later, with a question and a configuration (the Gemini *)
(* key set or not) that may differ, and the backends answer it as they do. *)
(* The first request arrives at noon of NowDay; no close date of the       *)
(* inputs falls into the following seconds, so daysUntil gives every       *)
(* request the same numbers for the same records.                          *)
(***************************************************************************)
MaxRequests == 2

BriefQuestions == {Question, "Which accounts are at risk this week?"}

BriefRequests ==
    {[method |-> "POST", body |-> Obj([question |-> Str(q)])] : q \in BriefQuestions}

BriefEnvs == {EnvKeys, EnvKeys \ {"GEMINI_API_KEY"}}

BriefSnOutcomes ==
    {HttpReply(200, JsonBody("{\"result\":{...}}",
         Obj([result |-> Obj([totalHighPriority |-> Num(CombinedTotal),
                              byPriority |-> Arr(<<PriorityEntry("2", 6),
                                                   PriorityEntry("1", CombinedP1)>>)])]))),
     HttpReply(500, ErrorJson)}

BriefOppOutcomes ==
    {QueryResult(<<>>), QueryResult(<<RiskOpp("006A", RevenueThreshold)>>)}

\* The named account is found; the seeded prompt finds nothing
BriefNamedOutcomes == {QueryResult(<<NamedAccount>>)}
BriefSeedOutcomes == {HttpReply(200, AnswerJson(""))}

BriefSpOutcomes == {HttpReply(200, AnswerJson(a)) : a \in {b \in SpAnswers : Includes(b, "Key risk")}}

BriefGeminiOutcomes ==
    {HttpReply(200, CandidatesJson("Risk is high today.")), HttpReply(500, ErrorJson)}

InitBrief == Arrival({"final"}, BriefEnvs, BriefRequests)

\* The handler has answered, and the deployment receives its next request
NextRequest ==
    /\ hpc = "done"
    /\ now + 1 < MaxRequests
    /\ now' = now + 1
    /\ env' \in BriefEnvs
    /\ req' \in BriefRequests
    /\ hpc' = "recv"
    /\ sn' = Pending("idle")
    /\ sf' = Pending("idle")
    /\ sp' = Pending("idle")
    /\ gem' = IdleGemini
    /\ res' = NoResponse
    /\ net' = NoCalls
    /\ UNCHANGED <<version, sig, chat, built>>

NextBrief ==
    \/ Receive
    \/ ServiceNowReply(BriefSnOutcomes)
    \/ SalesforceLoginReply(LoginOutcomes)
    \/ SalesforceNamedReply(BriefNamedOutcomes)
    \/ SalesforceOppReply(BriefOppOutcomes)
    \/ SharePointSeedReply(BriefSeedOutcomes)
    \/ SharePointBroadReply(BriefSpOutcomes)
    \/ GeminiReply(BriefGeminiOutcomes)
    \/ NextRequest

SpecBrief == InitBrief /\ [][NextBrief]_vars

(***************************************************************************)
(* The CRM adapter in detail: every outcome of the login and of the two    *)
(* account queries, and opportunity lists whose probabilities and close    *)
(* dates lie on both sides of the heuristic's thresholds, up to the 25     *)
(* records the query's LIMIT allows.                                       *)
(***************************************************************************)
QueryLimit == 25

\* A close date `days` days and one hour less from now
InDays(days) == Date(days * HoursPerDay - 1)

CrmProbabilities ==
    {Num(ProbabilityThreshold - 1), Num(ProbabilityThreshold),
     Num(ProbabilityThreshold + 1), Null, Undefined, Str("4e1")}

CrmCloseDates ==
    {InDays(CloseWindowDays), InDays(CloseWindowDays + 1), InDays(0 - 3),
     Str("next quarter"), Null, Num(20260301), Str("2026-03-02")}

CrmOpp(n, amount, probability, closeDate) ==
    Obj([Id |-> Str("006" \o ToString(n)), Name |-> Str("Modernisation"),
         Amount |-> Num(amount), StageName |-> Str("Negotiation"),
         CloseDate |-> closeDate, Probability |-> probability])

\* n open opportunities, all at risk, of amounts 1000, 2000, ...
AtRiskOpps(n) ==
    [i \in 1..n |-> CrmOpp(i, 1000 * i, Num(ProbabilityThreshold - 1), InDays(CloseWindowDays + 1))]

CrmOppLists ==
    { <<CrmOpp(1, 90000, p, d)>> : p \in CrmProbabilities, d \in CrmCloseDates }
    \cup { <<CrmOpp(1, 90000, Num(ProbabilityThreshold + 1), InDays(CloseWindowDays + 1)),
             CrmOpp(2, 60000, p, InDays(CloseWindowDays + 1))>> : p \in CrmProbabilities }
    \cup { AtRiskOpps(n) : n \in {0, AtRiskLimit, AtRiskLimit + 1, QueryLimit} }

CrmOppOutcomes ==
    {QueryResult(l) : l \in CrmOppLists}
    \cup {Throw("QUERY_TIMEOUT"),
          QueryResult(<<Null>>),
          Resolve(Obj([records |-> EmptyObject]))}

CrmHotOutcomes == HotQueryOutcomes \cup {QueryResult(<<Null>>)}

InitCrm ==
    Arrival({"final"}, {EnvKeys \ {"GEMINI_API_KEY"}},
            {[method |-> "POST", body |-> Obj([question |-> Str(Question)])]})

NextCrm ==
    \/ Receive
    \/ ServiceNowReply(SnBasicOutcomes)
    \/ SalesforceLoginReply(LoginOutcomes)
    \/ SalesforceNamedReply(NamedQueryOutcomes)
    \/ SalesforceHotReply(CrmHotOutcomes)
    \/ SalesforceOppReply(CrmOppOutcomes)
    \/ SharePointSeedReply(SpBasicOutcomes)
    \/ SharePointBroadReply(SpBasicOutcomes)

SpecCrm == InitCrm /\ [][NextCrm]_vars

(***************************************************************************)
(* Progress.  fetchJson arms a timer that aborts the call, so every call   *)
(* made through it settles: with a reply, or rejected when the timer       *)
(* fires.  conn.login and conn.query of jsforce are awaited with no timer: *)
(* nothing in the code makes them settle.                                  *)
(***************************************************************************)
\* controller.abort() after timeoutMs: the pending fetch rejects
TimedOut == ThrowOf("AbortError", AbortError)

\* What a call made through fetchJson may settle with
SnTimedOutcomes == SnBasicOutcomes \cup {TimedOut}
SpTimedOutcomes == SpBasicOutcomes \cup {TimedOut}
GeminiTimedOutcomes == GeminiBasicOutcomes \cup {TimedOut}

NextBounded ==
    \/ Receive
    \/ ServiceNowReply(SnTimedOutcomes)
    \/ SalesforceLoginReply(LoginOutcomes)
    \/ SalesforceNamedReply(NamedBasicOutcomes)
    \/ SalesforceHotReply(HotBasicOutcomes)
    \/ SalesforceOppReply(OppBasicOutcomes)
    \/ SharePointSeedReply(SpTimedOutcomes)
    \/ SharePointBroadReply(SpTimedOutcomes)
    \/ GeminiReply(GeminiTimedOutcomes)
    \/ BackoffOver

\* The handler runs, timers fire and sleeps end; the jsforce calls carry no
\* such guarantee.
TimersFire ==
    /\ WF_vars(Receive)
    /\ WF_vars(ServiceNowReply(SnTimedOutcomes))
    /\ WF_vars(SharePointSeedReply(SpTimedOutcomes))
    /\ WF_vars(SharePointBroadReply(SpTimedOutcomes))
    /\ WF_vars(GeminiReply(GeminiTimedOutcomes))
    /\ WF_vars(BackoffOver)

SpecBounded == InitPolish /\ [][NextBounded]_vars /\ TimersFire

(***************************************************************************)
(* Properties                                                              *)
(***************************************************************************)
\* The request is a POST carrying a usable question, served by the handler
\* of src/api/txi-dashboard.js.
ValidPost ==
    /\ version = "final"
    /\ req.method = "POST"
    /\ ValidQuestion(QuestionOf(req))

Promises == <<sn, sf, sp>>

AllReturned == \A i \in 1..3 : Promises[i].pc = "returned"

\* sources.serviceNow, sources.salesforce, sources.sharePoint by position
SourceAt(sources, i) ==
    CASE i = 1 -> sources.serviceNow
      [] i = 2 -> sources.salesforce
      [] i = 3 -> sources.sharePoint

\* The brief the builder makes of the adapters' results (all returned)
DeterministicBrief == BuildCanonicalExecutiveAnswer(version, Sources(sn, sf, sp))

\* C1 (Totality): once the handler has answered a POST with a valid
\* question, the answer is HTTP 200 with a non-empty combinedAnswer, whatever
\* each adapter did (missing configuration, non-2xx, non-JSON, connection
\* error or timeout).
C1_Totality ==
    (hpc = "done" /\ ValidPost) => (res.status = 200 /\ res.body.combinedAnswer # "")

\* C2 (Isolation): when exactly one adapter threw and the other two returned,
\* the response is a 200 whose sources hold the other two results unchanged.
C2_Isolation ==
    \A i \in 1..3 :
        (/\ hpc = "done"
         /\ ValidPost
         /\ Promises[i].pc = "thrown"
         /\ \A j \in (1..3) \ {i} : Promises[j].pc = "returned")
        => /\ res.status = 200
           /\ \A j \in (1..3) \ {i} : SourceAt(res.body.sources, j) = Promises[j].result

\* C3: no adapter lets an exception escape: a network call that times out or
\* fails at the connection leaves the adapter returned with ok:false and an
\* error string, never rejected.
C3_NoEscape ==
    version = "final"
    => \A i \in 1..3 :
          /\ Promises[i].pc # "thrown"
          /\ (Promises[i].pc = "returned" /\ ~Promises[i].result.ok)
                => Promises[i].result.error.t = "str"

\* The Gemini step ran and did not produce a text: the call failed (network
\* error or timeout), the status was not 2xx, or the text was empty.
GeminiAttemptFailed ==
    /\ version = "final"
    /\ gem.attempt >= 1
    /\ \/ gem.out.t = "throw"
       \/ (gem.out.t = "out" /\ ~(gem.out.ok /\ PolishedText(gem.out) # ""))

\* The Gemini step could not run for lack of the API key.
GeminiKeyMissing ==
    /\ ValidPost
    /\ "GEMINI_API_KEY" \notin env
    /\ AllReturned
    /\ DeterministicBrief.t = "str"

\* C4 (LLM fallback): after any failure of the polish step the response is
\* HTTP 200, combinedAnswer is the deterministic brief and gemini.used is
\* false.
C4_LlmFallback ==
    (hpc = "done" /\ (GeminiAttemptFailed \/ GeminiKeyMissing))
    => /\ res.status = 200
       /\ res.body.combinedAnswer = DeterministicBrief.s
       /\ res.body.gemini.used = FALSE

\* The LLM returned a non-empty text.
LlmReturned ==
    gem.attempt >= 1 /\ gem.out.t = "out" /\ gem.out.ok /\ PolishedText(gem.out) # ""

\* The text lacks a required section header or the Traceability line, or is
\* shorter than the minimum length.
LacksRequired(text) ==
    \/ \E i \in 1..Len(GuardMarkers) : ~Includes(text, GuardMarkers[i])
    \/ Len(text) < MinTemplateLength

\* C5 (Template guard): in the hardened handler an LLM text that lacks a
\* required header, the Traceability line or the minimum length leaves
\* gemini.used false and combinedAnswer equal to the deterministic brief; the
\* LLM text is used only when it has them all.
C5_TemplateGuard ==
    (version = "hardened" /\ res.status = 200 /\ LlmReturned)
    => LET text == PolishedText(gem.out) IN
       /\ LacksRequired(text)
             => /\ res.body.gemini.used = FALSE
                /\ res.body.combinedAnswer = DeterministicBrief.s
       /\ (res.body.gemini.used \/ res.body.combinedAnswer = text)
             => ~LacksRequired(text)

\* The hardened handler answered after the LLM returned a long text with
\* exactly one required marker missing, and kept the deterministic brief.
C5_Witness ==
    /\ version = "hardened"
    /\ res.status = 200
    /\ LlmReturned
    /\ Len(PolishedText(gem.out)) >= MinTemplateLength
    /\ Cardinality({i \in 1..Len(GuardMarkers) :
                       ~Includes(PolishedText(gem.out), GuardMarkers[i])}) = 1
    /\ res.body.gemini.used = FALSE
    /\ res.body.combinedAnswer = DeterministicBrief.s

SectionHeadings == {Heading1, Heading2, Heading3, Heading4, Heading5}

\* C6: in the final (Canonical Exec Template) version every 200 response to
\* a POST has a combinedAnswer containing the 5 numbered section headings.
C6_AllHeadings ==
    (version = "final" /\ req.method = "POST" /\ res.status = 200)
    => \A h \in SectionHeadings : Includes(res.body.combinedAnswer, h)

\* A payload that only describes the failure: the raw reply or the
\* backend's error reply with its details, the account found so far, or the
\* two attempts.
DiagnosticOnly(d) ==
    /\ d.t = "obj"
    /\ DOMAIN d.f \subseteq {"raw", "error", "details", "ebcAccount",
                            "seededAttempt", "broadAttempt"}

\* C7 (Mutual exclusivity): every SourceResult an adapter returns has
\* ok => error null, and ~ok => error a non-empty string and data null or a
\* diagnostic-only payload.
C7_MutualExclusivity ==
    \A i \in 1..3 :
        Promises[i].pc = "returned"
        => LET r == Promises[i].result IN
           /\ r.ok => r.error = Null
           /\ ~r.ok => /\ r.error.t = "str"
                       /\ r.error.s # ""
                       /\ (r.data = Null \/ DiagnosticOnly(r.data))

\* All three adapters returned: one ok, one failed with null data and one
\* failed with a diagnostic payload.
C7_Witness ==
    /\ version = "final"
    /\ AllReturned
    /\ \E i \in 1..3 : Promises[i].result.ok
    /\ \E i \in 1..3 : ~Promises[i].result.ok /\ Promises[i].result.data = Null
    /\ \E i \in 1..3 : ~Promises[i].result.ok /\ Promises[i].result.data # Null

\* C8: in every SourceResult exactly one of data and error is non-null.
C8_ExactlyOne ==
    \A i \in 1..3 :
        (version = "final" /\ Promises[i].pc = "returned")
        => (Promises[i].result.data = Null) # (Promises[i].result.error = Null)

SourceGroups == <<SnKeys, SfKeys, SpKeys>>

\* Network calls issued by the adapter at position i
CallsOf(i) ==
    CASE i = 1 -> net.sn
      [] i = 2 -> net.sfLogin + net.sfQuery
      [] i = 3 -> net.sp

\* C9: when a setting of exactly one source is absent, that adapter returns
\* ok:false with null data without a network call, the other two adapters
\* are called and reported, and the handler answers HTTP 200.
C9_MissingConfig ==
    \A i \in 1..3 :
        (/\ hpc = "done"
         /\ ValidPost
         /\ ~(SourceGroups[i] \subseteq env)
         /\ \A j \in (1..3) \ {i} : SourceGroups[j] \subseteq env)
        => /\ Promises[i].pc = "returned"
           /\ ~Promises[i].result.ok
           /\ Promises[i].result.data = Null
           /\ CallsOf(i) = 0
           /\ \A j \in (1..3) \ {i} : CallsOf(j) >= 1
           /\ res.status = 200
           /\ \A j \in 1..3 : /\ Promises[j].pc = "returned"
                              /\ SourceAt(res.body.sources, j) = Promises[j].result

\* The body carries a non-empty string question, as an object or as a JSON
\* text of such an object.
CarriesQuestion(body) ==
    LET o == IF body.t = "raw" /\ body.body.valid THEN body.body.json ELSE body IN
    /\ o.t = "obj"
    /\ "question" \in DOMAIN o.f
    /\ o.f.question.t = "str"
    /\ o.f.question.s # ""

NoCallsMade ==
    /\ sn.pc = "idle" /\ sf.pc = "idle" /\ sp.pc = "idle"
    /\ net = NoCalls
    /\ gem.attempt = 0

\* The status the inbound contract gives a request that is not served
RefusalStatus(r) ==
    CASE r.method = "OPTIONS" -> 200
      [] r.method # "POST"    -> 405
      [] OTHER                -> 400

\* C10 (Inbound contract): OPTIONS is answered 200, another method than POST
\* 405, a POST without a non-empty string question 400, and in these cases
\* no adapter and no LLM call is made.
C10_InboundContract ==
    (req.method # "POST" \/ ~CarriesQuestion(req.body))
    => /\ NoCallsMade
       /\ hpc \in {"recv", "done"}
       /\ hpc = "done" => res.status = RefusalStatus(req)

\* A POST whose string body does not parse was answered 400.
C10_Witness ==
    /\ version = "final"
    /\ req.method = "POST"
    /\ req.body.t = "raw"
    /\ ~req.body.body.valid
    /\ res.status = 400
    /\ NoCallsMade

\* An adapter call has settled: its promise is fulfilled or rejected.
Settled(p) == p.pc \in {"returned", "thrown"}

\* C11 (Join-all): the handler sends no response to a valid POST while one
\* of the three adapter calls is still pending; it responds only after all
\* three have settled, also when one of them failed.
C11_JoinAll ==
    (ValidPost /\ res.status # 0) => \A i \in 1..3 : Settled(Promises[i])

\* callGeminiPolish has returned to the handler: at once for lack of the
\* key, or after an attempt that settled with a reply.
GeminiStepReturned ==
    /\ AllReturned
    /\ \/ "GEMINI_API_KEY" \notin env
       \/ (gem.attempt >= 1 /\ gem.out.t = "out" /\ hpc \notin {"gemini", "backoff"})

\* C12 (Ordering): no request goes to the Gemini endpoint before the three
\* adapter calls have completed, and the response is written only after the
\* Gemini step has returned.
C12_Ordering ==
    ValidPost
    => /\ net.gemini >= 1 => AllReturned
       /\ res.status # 0 => GeminiStepReturned

\* C13 (Bounded response): every POST with a valid question eventually
\* receives its HTTP response, also when an external system never replies.
C13_BoundedResponse == ValidPost ~> (res.status # 0)

\* The assistant's answer reports that nothing matched: it is empty, is
\* NO_MATCH, or says so in words.
ReportsNoMatch(a) ==
    \/ a = ""
    \/ Trim(a) = "NO_MATCH"
    \/ Includes(ToLowerCase(a), "couldn't find")
    \/ Includes(ToLowerCase(a), "could not find")
    \/ Includes(ToLowerCase(a), "no matching")

\* C14 (Document search finds nothing): when the assistant replied
\* successfully but reported no match to every attempt of
\* getSharePointSummary, the result has ok false and a NO_MATCH error, which
\* differs from the error of a transport failure; so no result with ok true
\* carries an answer that reports no match.
C14_NoMatchIsNotOk ==
    (version = "final" /\ sp.pc = "returned")
    => /\ sp.result.ok => ~ReportsNoMatch(AnswerOf(sp.result.data))
       /\ (~sp.result.ok /\ Get(sp.result.data, "broadAttempt") # Undefined)
             => /\ SubSeq(sp.result.error.s, 1, 8) = "NO_MATCH"
                /\ sp.result.error # SpTransportError([status |-> 200, json |-> Null,
                                                       text |-> ""]).error

\* The assistant's answers for files that matched but cannot be read
UnreadableReports == {UnsupportedAnswer, UnsupportedSingleAnswer, UnreadableAnswer}

\* C15 (Matched but unreadable): when the assistant found files but none in
\* a supported format, or could extract no readable text, the result has ok
\* false and an error that is not the NO_MATCH one; it is never ok true.
C15_UnreadableIsNotOk ==
    (version = "final" /\ sp.pc = "returned"
        /\ AnswerOf(sp.result.data) \in UnreadableReports)
    => /\ ~sp.result.ok
       /\ SubSeq(sp.result.error.s, 1, 8) # "NO_MATCH"


SignalsAnswered == version = "signals" /\ req.method = "POST" /\ sig.pc = "done"

\* C16: the sharepoint-signals handler answers every POST with HTTP 200 and a
\* payload whose ok is a boolean, whatever failed inside; in the payload ok
\* is true exactly when the extracted text it carries is non-empty, error is
\* null exactly when ok is true, NO_MATCH is reported only when no seeded file
\* was located and FOUND_FILES_BUT_NO_TEXT only when files were located and no
\* text came out of them; the dashboard's reader of the payload keeps ok and
\* error as they are.
C16_SignalsContract ==
    SignalsAnswered =>
        LET b == res.body
            finished == sig.i > Len(CandidatePaths)
        IN  /\ res.status = 200
            /\ b.ok \in BOOLEAN
            /\ b.ok <=> (b.signalsText # "")
            /\ (b.error = Null) <=> b.ok
            /\ SignalsNoMatch # SignalsNoText
            /\ b.error = Str(SignalsNoMatch) <=> (finished /\ sig.filesFound = <<>>)
            /\ b.error = Str(SignalsNoText)
                  <=> (finished /\ sig.filesFound # <<>> /\ sig.combinedText = "")
            /\ finished => (b.ok <=> Trim(sig.combinedText) # "")
            /\ GetSharePointSignals(SignalsWire(res)).result.ok = b.ok
            /\ GetSharePointSignals(SignalsWire(res)).result.error = b.error

\* Two seeded files were located and neither yielded text
C16_Witness ==
    /\ SignalsAnswered
    /\ Len(res.body.filesFound) >= 2
    /\ res.body.error = Str(SignalsNoText)
    /\ ~res.body.ok


Answered200 == req.method = "POST" /\ hpc = "done" /\ res.status = 200

\* C17 (Descriptor consistency): in every 200 response to a POST, of the final
\* and of the hardened handler, gemini.used is true exactly when combinedAnswer
\* is the text the LLM returned, and then gemini.model is set and no error is
\* reported; when gemini.used is false, combinedAnswer is the deterministic
\* brief and gemini.error is a non-empty string.
C17_Descriptor ==
    Answered200 =>
        LET d == res.body.gemini IN
        /\ d.used <=> (LlmReturned /\ res.body.combinedAnswer = PolishedText(gem.out))
        /\ d.used => /\ "model" \in DOMAIN d
                     /\ d.model # ""
                     /\ "error" \notin DOMAIN d
        /\ ~d.used => /\ res.body.combinedAnswer = DeterministicBrief.s
                      /\ "error" \in DOMAIN d
                      /\ d.error.t = "str"
                      /\ d.error.s # ""

\* The hardened handler answered with the brief after the LLM returned a text
\* that the guard rejected, and says so in the descriptor
C17_Witness ==
    /\ Answered200
    /\ version = "hardened"
    /\ LlmReturned
    /\ res.body.gemini = [used |-> FALSE,
                          error |-> Str("Gemini output rejected by template guard.")]
    /\ res.body.combinedAnswer # PolishedText(gem.out)

\* HTTP statuses of the rate-limit / unavailable class
RetryWorthy == {429, 503}

\* C18 (Retry policy): callGeminiPolish of the final handler makes at most 2
\* attempts; it goes on to a second attempt only when the first one failed
\* with HTTP 429 or 503; after a successful non-empty reply no attempt
\* follows.
C18_RetryPolicy ==
    version = "final" =>
        /\ gem.attempt <= 2
        /\ net.gemini <= 2
        /\ (hpc = "backoff" /\ gem.attempt < MaxAttempts)
              => (gem.out.t = "out" /\ ~gem.out.ok /\ gem.out.status \in RetryWorthy)
        /\ LlmReturned => hpc = "done"


\* What computeRiskLevel reads, and what it gives, for the sources the
\* adapters returned
TicketingTotal == SafeNumber(Get(DataOf(sn.result), "totalHighPriority"), 0)
AtRiskRevenue ==
    SafeNumber(Get(Get(DataOf(sf.result), "atRiskSummary"), "totalAmount"), 0)
RiskLevel == ComputeRiskLevel(version, sn.result, sf.result, sp.result)

IsLevel(level, name) == level.t = "str" /\ StartsWith(level.s, name)

\* C19 (Risk threshold, ticketing): whenever the ticketing source is ok and
\* its totalHighPriority is at least 50, computeRiskLevel of the final handler
\* returns a "High" level, whatever the P1 count, the at-risk revenue and the
\* SharePoint status are.
C19_TicketingThreshold ==
    (version = "final" /\ AllReturned /\ sn.result.ok /\ TicketingTotal >= 50)
        => IsLevel(RiskLevel, "High")

\* C20 (Risk threshold, revenue): whenever the at-risk revenue is at least
\* 250000, computeRiskLevel of the final handler returns a level that is
\* "Medium" or "High", for every ticketing and SharePoint state.
C20_RevenueThreshold ==
    (version = "final" /\ AllReturned /\ AtRiskRevenue >= 250000)
        => (IsLevel(RiskLevel, "Medium") \/ IsLevel(RiskLevel, "High"))


\* The CRM adapter returned ok:true; sf.aux holds the records it fetched
CrmSummarised == version = "final" /\ sf.pc = "returned" /\ sf.result.ok

Fetched == sf.aux.items

AtRiskList == Get(sf.result.data, "atRiskOpportunities").items

\* The record was classified at-risk: it is one of atRiskOpportunities
ClassifiedAtRisk(r) == \E k \in 1..Len(AtRiskList) : AtRiskList[k].id = Get(r, "Id")

\* The heuristic as stated: probability below 30, or close date within 45 days
StatedAtRisk(r) ==
    \/ (Get(r, "Probability").t = "num" /\ Get(r, "Probability").n < 30)
    \/ (NormalizeOpp(r).closeInDays.t = "num" /\ NormalizeOpp(r).closeInDays.n <= 45)

\* C21 (At-risk heuristic): a fetched open opportunity is classified at-risk
\* exactly when its probability is below 30 or its close date is within 45
\* days; one with probability exactly 30, or no probability, and a close date
\* further away is not classified at-risk.
C21_AtRiskHeuristic ==
    CrmSummarised =>
        \A i \in 1..Len(Fetched) : ClassifiedAtRisk(Fetched[i]) <=> StatedAtRisk(Fetched[i])

\* The fetched records that satisfy the heuristic of the code
Satisfying == {i \in 1..Len(Fetched) : IsAtRisk(NormalizeOpp(Fetched[i]))}

RECURSIVE SumOver(_)
SumOver(is) ==
    IF is = {} THEN 0
    ELSE LET i == CHOOSE j \in is : TRUE IN
         NormalizeOpp(Fetched[i]).amount + SumOver(is \ {i})

\* C22 (At-risk aggregation): atRiskSummary.opportunityCount is the number of
\* fetched open opportunities that satisfy the at-risk heuristic and
\* atRiskSummary.totalAmount is the sum of the amounts of all of them, for
\* any number (0 to 25) of them.
C22_Aggregation ==
    CrmSummarised =>
        LET summary == Get(sf.result.data, "atRiskSummary") IN
        /\ Get(summary, "opportunityCount") = Num(Cardinality(Satisfying))
        /\ Get(summary, "totalAmount") = Num(SumOver(Satisfying))


\* The document adapter's call in flight carries the seeded prompt (the known
\* seed filenames) or the broad one (the user's question)
SeededInFlight == sp.pc = "seed"
BroadInFlight == sp.pc = "broad"

NoMatchReturned ==
    /\ sp.pc = "returned"
    /\ ~sp.result.ok
    /\ sp.result.error = Str(NoMatchError(version))

\* C23 (Order of the two attempts): getSharePointSummary of the final handler
\* issues the broad query first and the seeded query second, the seeded one
\* only after the broad one yielded no usable match; ok:false for "no match"
\* is returned only after both attempts were made.
C23_BroadThenSeeded ==
    version = "final" =>
        /\ (net.sp = 1 /\ (SeededInFlight \/ BroadInFlight)) => BroadInFlight
        /\ SeededInFlight => net.sp = 2
        /\ NoMatchReturned => net.sp = 2

\* The transport failure result of the first call: non-2xx or non-JSON
IsTransportFailure(r) ==
    /\ ~r.ok
    /\ r.error.t = "str"
    /\ SubSeq(r.error.s, 1, 5) = "HTTP "
    /\ EndsWith(r.error.s, " or non-JSON")

\* C30: getSharePointSummary of the final handler calls the assistant at most
\* twice per request; the second call is made only when the first call
\* returned an HTTP-ok JSON reply whose answer is empty or reports no match; a
\* transport failure on the first call ends the adapter with ok:false and a
\* usable first answer ends it with ok:true, both without a second call; no
\* call follows the second.
C30_AtMostTwoCalls ==
    [][ version = "final" =>
          /\ net'.sp <= 2
          /\ sp.pc = "seed" =>
                \A o \in SpOutcomes :
                   SharePointAfterSeed(version, o).pc = "broad" =>
                      (o.t = "reply" /\ StatusOk(o.status) /\ o.body.valid)
          /\ (sp.pc = "seed" /\ sp'.pc # "seed") =>
                /\ net.sp = 1
                /\ sp'.pc = "broad" =>
                      /\ net'.sp = 2
                      /\ Truthy(sp'.aux)
                      /\ SeededIsNoMatch(version, AnswerOf(sp'.aux))
                /\ sp'.pc = "returned" =>
                      /\ net'.sp = 1
                      /\ sp'.result.ok => ~SeededIsNoMatch(version, AnswerOf(sp'.result.data))
                      /\ ~sp'.result.ok => IsTransportFailure(sp'.result)
          /\ (sp.pc = "broad" /\ sp'.pc # "broad") =>
                (sp'.pc \in {"returned", "thrown"} /\ net'.sp = 2) ]_vars

\* The adapter has ended after one call with a transport failure
C30_Witness ==
    /\ version = "final"
    /\ sp.pc = "returned"
    /\ IsTransportFailure(sp.result)
    /\ net.sp = 1


\* The account query threw, or its reply holds no record (a null entry is
\* not a record)
NoRecord(o) ==
    \/ o.t = "throw"
    \/ Get(o.v, "records").t # "arr"
    \/ Get(o.v, "records").items = <<>>
    \/ IsNullish(Get(o.v, "records").items[1])

\* C24 (Protocol order of the CRM adapter): login precedes every query and a
\* failed login ends the adapter with ok:false and no query; the Rating='Hot'
\* account query is issued only if the Name='EBC HQ' query returned no record
\* or threw; the opportunity query is issued only after an account was found,
\* and if neither account query yields a record the adapter returns ok:false
\* without an opportunity query.
C24_CrmProtocol ==
    [][ version = "final" =>
          /\ net'.sfQuery > 0 => (net'.sfLogin = 1 /\ sf'.pc # "login")
          /\ sf.pc = "login" =>
                \A o \in LoginOutcomes :
                   SalesforceAfterLogin(o).pc = "returned" <=> o.t = "throw"
          /\ (sf.pc = "login" /\ sf'.pc # "login") =>
                /\ net.sfQuery = 0
                /\ \/ sf'.pc = "q1" /\ net'.sfQuery = 1
                   \/ /\ sf'.pc = "returned"
                      /\ ~sf'.result.ok
                      /\ SubSeq(sf'.result.error.s, 1, 13) = "Login failed:"
                      /\ net'.sfQuery = 0
          /\ sf.pc = "q1" =>
                /\ \A o \in NamedQueryOutcomes :
                      SalesforceAfterNamedQuery(o).pc = "q2" <=> NoRecord(o)
                /\ sf'.pc \in {"q1", "q2", "opp"}
          /\ (sf'.pc = "q2" /\ sf.pc # "q2") => (sf.pc = "q1" /\ net'.sfQuery = 2)
          /\ (sf'.pc = "opp" /\ sf.pc # "opp") =>
                /\ sf.pc \in {"q1", "q2"}
                /\ sf'.aux.t = "obj"
                /\ net'.sfQuery = net.sfQuery + 1
          /\ (sf.pc = "q2" /\ sf'.pc = "returned") =>
                /\ ~sf'.result.ok
                /\ net'.sfQuery = 2
          /\ net'.sfQuery <= 3 ]_vars

\* Neither account query yielded a record: ok:false after two queries
C24_Witness ==
    /\ version = "final"
    /\ sf.pc = "returned"
    /\ sf.result.error = Str("No target account found (EBC HQ or Rating=Hot).")
    /\ net.sfLogin = 1
    /\ net.sfQuery = 2


\* C25: buildCanonicalExecutiveAnswer of the final handler always produces an
\* output: for every sources record the adapters can return, null data and
\* ticketing payloads with null or non-object byPriority entries included, it
\* returns a string and never throws, so the handler never answers 500
\* because of it.
C25_AlwaysAnOutput ==
    (version = "final" /\ AllReturned) =>
        /\ DeterministicBrief.t = "str"
        /\ (hpc = "done" /\ res.status = 500) => res.body.detail # TypeErrorMessage

LastLine(s) ==
    IF ~Includes(s, "\n") THEN s
    ELSE LET i == CHOOSE j \in 1..Len(s) :
                     /\ SubSeq(s, j, j) = "\n"
                     /\ \A k \in (j + 1)..Len(s) : SubSeq(s, k, k) # "\n"
         IN  SubSeq(s, i + 1, Len(s))

\* The footer shows the source as OK, and as error
ShowsOk(line, name) == Includes(line, name \o "(OK)")
ShowsError(line, name) == Includes(line, name \o "(error)")

\* C27 (Traceability footer): the last line of the deterministic brief names
\* Salesforce, ServiceNow and SharePoint and shows OK for a source exactly when
\* its ok is true and error otherwise; with all three healthy it reports all
\* three as OK.
C27_Footer ==
    (version = "final" /\ AllReturned /\ DeterministicBrief.t = "str") =>
        LET line == LastLine(DeterministicBrief.s)
            named == <<"ServiceNow", "Salesforce", "SharePoint">>
        IN  /\ SubSeq(line, 1, 13) = "Traceability:"
            /\ \A i \in 1..3 :
                  /\ ShowsOk(line, named[i]) <=> Promises[i].result.ok
                  /\ ShowsError(line, named[i]) <=> ~Promises[i].result.ok
            /\ (\A i \in 1..3 : Promises[i].result.ok)
                  => line = "Traceability: Salesforce(OK) | ServiceNow(OK) | SharePoint(OK)"

\* The brief was built for a failed SharePoint lookup and two healthy sources
C27_Witness ==
    /\ version = "final"
    /\ AllReturned
    /\ sn.result.ok /\ sf.result.ok /\ ~sp.result.ok
    /\ DeterministicBrief.t = "str"
    /\ LastLine(DeterministicBrief.s)
          = "Traceability: Salesforce(OK) | ServiceNow(OK) | SharePoint(error)"


\* C28 (Character budget): for every input text clip(text, 8000) returns a
\* string of at most 8000 characters, so the signalsText of an answer never
\* exceeds 8000 characters.
C28_CharacterBudget ==
    version = "signals" =>
        /\ Len(Clip(sig.combinedText, 8000)) <= 8000
        /\ SignalsAnswered => Len(res.body.signalsText) <= 8000


\* The allowlist as the claim states it: plain text, CSV, Word, spreadsheet, PDF
StatedAllowlist == {"txt", "csv", "docx", "xlsx", "pdf"}

\* The names of the search hits kept by the handler
ResultNames == [i \in 1..Len(chat.results) |-> Get(chat.results[i], "name").s]

\* The names of the files downloaded and read so far
ExtractedNames == [i \in 1..Len(chat.extracted) |-> Get(chat.extracted[i], "fileName").s]

\* The search hits whose extension is in the stated allowlist, in result order
StatedSupported ==
    Filter(ResultNames, [n \in {ResultNames[i] : i \in 1..Len(ResultNames)} |->
                            GetExtension(n) \in StatedAllowlist])

\* C29 (Extension allowlist of the chat-sp handler): a search hit is
\* downloaded and summarised only if its extension is in the allowlist (plain
\* text, CSV, Word, spreadsheet, PDF); at most the first 3 supported hits, in
\* search-result order, are used; when no hit is supported no download and no
\* LLM call is made, and only then does the handler report that none of the
\* files found is in a supported format.
C29_Allowlist ==
    version = "chat-sp" =>
        LET first3 == Slice0(StatedSupported, 3) IN
        /\ Len(ExtractedNames) <= 3
        /\ \A k \in 1..Len(ExtractedNames) :
              /\ GetExtension(ExtractedNames[k]) \in StatedAllowlist
              /\ \E j \in 1..Len(first3) : first3[j] = ExtractedNames[k]
        /\ StatedSupported = <<>> => (chat.extracted = <<>> /\ chat.llmCalls = 0)
        /\ (chat.pc = "done" /\ res.status = 200 /\ req.method = "POST"
               /\ res.body.answer = Str(UnsupportedAnswer)) => StatedSupported = <<>>

====
